---- MODULE Spec2Model ----
(***************************************************************************)
(* E92 Pulse: UDS client over ISO-TP with a safety policy engine, a module *)
(* scanner and the embedding application's diagnostic worker.              *)
(*                                                                         *)
(* Bytes are naturals 0..255, byte strings are sequences of bytes, text is *)
(* a sequence of one-character strings.                                    *)
(***************************************************************************)
EXTENDS Integers, Sequences, FiniteSets, TLC

VARIABLES
    violations,       \* SafetyManager._violations
    trace,            \* UDSClient._trace
    session_type,     \* UDSClient._session_type
    is_open,          \* MockTransport._is_open
    tx_buffer,        \* MockTransport._tx_buffer: requests handed to the wire
    send_calls,       \* number of invocations of transport.send so far
    bus_tx,           \* CAN frames put on the bus by the application's IsoTpHandler
    call,             \* the last completed call and its outcome
    ncalls,           \* number of calls made so far
    scan_state,       \* ModuleScanner._state
    abort_requested,  \* ModuleScanner._abort_requested
    target_address,   \* UDSClient._target_address / the transport's routing target
    scans,            \* per caller: where its scan_all stands and its locals
    profile,          \* VehicleProfile: modules and scan_complete
    ecu,              \* how the module at each address behaves on the bus
    rx_frames,        \* what the successive _recv_frame calls of a reception return
    delivered,        \* what _receive_isotp returned, once it has
    tx_data,          \* the buffer handed to IsoTpHandler.send_receive
    fc_frames,        \* what the _recv_frame calls of that send_receive return
    exchanged,        \* what send_receive returned, once it has
    hooks,            \* SafetyManager._hooks, in registration order
    hook_calls,       \* the calls the violation hooks have received
    snapshot,         \* the list a caller obtained from get_violations
    manager,          \* the fields a SafetyManager instance was constructed with
    mutex,            \* CANWorker._mutex: the worker holding it, or 0
    workers,          \* per CANWorker thread: where run() stands and what it did
    dtc_ref,          \* per mock ECU address: the list object MockECU._dtcs names
    dtc_lists,        \* contents of the DTC list objects
    current_target,   \* MockECUManager._current_target
    service,          \* ECUResetService._state and the profile's service records
    can,              \* CANTransport, the frames it sent and its socket's queue
    battery,          \* BatteryRegistrationService, its run and the module it acts on
    connection        \* ConnectionManager and the transport it was given

udsVars == <<violations, trace, session_type, is_open, tx_buffer, send_calls,
             bus_tx, call, ncalls>>

scanVars == <<scan_state, abort_requested, target_address, scans, profile, ecu>>

isotpVars == <<rx_frames, delivered, tx_data, fc_frames, exchanged>>

safetyVars == <<hooks, hook_calls, snapshot>>

workerVars == <<mutex, workers>>

mockVars == <<dtc_ref, dtc_lists, current_target>>

linkVars == <<can, battery, connection>>

appVars == <<manager, workerVars, mockVars, service, linkVars>>

vars == <<udsVars, scanVars, isotpVars, safetyVars, appVars>>

----------------------------------------------------------------------------
(* Bounds of the model *)

MaxCalls == 2

\* number of modules in the registry
NumModules == 2

\* number of frames that may follow the first frame of a reception
MaxFrames == 2

\* longest buffer segmented, besides the long ones of LongLengths
MaxBufLen == 22

\* hooks registered with one SafetyManager
MaxHooks == 2

----------------------------------------------------------------------------
(* Byte helpers *)

None == <<-1>>

Hi(w) == (w \div 256) % 256

Lo(w) == w % 256

to_bytes2(w) == <<Hi(w), Lo(w)>>

RECURSIVE from_bytes_big(_)
from_bytes_big(b) ==
    IF Len(b) = 0 THEN 0
    ELSE 256 * from_bytes_big(SubSeq(b, 1, Len(b) - 1)) + b[Len(b)]

\* Python slice b[lo:hi] on a 0-based sequence, clamped like Python does
Slice(b, lo, hi) ==
    LET h == IF hi > Len(b) THEN Len(b) ELSE hi
    IN IF lo >= h THEN <<>> ELSE SubSeq(b, lo + 1, h)

RECURSIVE BitXor(_, _, _)
BitXor(a, b, n) ==
    IF n = 0 THEN 0
    ELSE ((((a % 2) + (b % 2)) % 2)) + 2 * BitXor(a \div 2, b \div 2, n - 1)

----------------------------------------------------------------------------
(* core/safety.py: SafetyManager *)

BLOCKED_SERVICES == {39, 46, 52, 53, 54, 55, 56}

BLOCKED_WRITE_DIDS == {61840, 61841, 9472, 9473, 9474}

BLOCKED_ROUTINES == {256, 257, 258, 259, 512, 513, 514, 65280, 65281, 65282}

SAFE_RESET_TYPES == {1, 2, 3}

BLOCKED_KEYWORDS ==
  << <<"i","m","m","o","b","i","l","i","z","e","r">>,
     <<"i","m","m","o">>,
     <<"e","w","s">>,
     <<"k","e","y","_","p","r","o","g","r","a","m">>,
     <<"k","e","y","_","l","e","a","r","n">>,
     <<"s","e","c","u","r","i","t","y","_","b","y","p","a","s","s">>,
     <<"s","e","c","u","r","i","t","y","_","u","n","l","o","c","k">>,
     <<"v","i","n","_","w","r","i","t","e">>,
     <<"v","i","n","_","m","o","d","i","f","y">>,
     <<"o","d","o","m","e","t","e","r">>,
     <<"m","i","l","e","a","g","e">>,
     <<"k","m","_","w","r","i","t","e">>,
     <<"f","l","a","s","h","_","e","c","u">>,
     <<"f","l","a","s","h","_","w","r","i","t","e">>,
     <<"c","o","d","i","n","g","_","w","r","i","t","e">>,
     <<"d","u","m","p","_","e","e","p","r","o","m">>,
     <<"e","e","p","r","o","m","_","w","r","i","t","e">>,
     <<"c","a","s","_","r","e","s","e","t">>,
     <<"t","h","e","f","t">>,
     <<"u","n","l","o","c","k","_","e","c","u">> >>

\* str.lower() on the characters the model's operation names use
LowerChar(c) ==
    CASE c = "A" -> "a" [] c = "C" -> "c" [] c = "E" -> "e" [] c = "F" -> "f"
      [] c = "K" -> "k" [] c = "L" -> "l" [] c = "R" -> "r" [] c = "S" -> "s"
      [] c = "U" -> "u" [] c = "W" -> "w"
      [] OTHER -> c

\* operation.lower().replace(" ", "_").replace("-", "_")
NormalizeOperation(operation) ==
    [i \in 1..Len(operation) |->
        LET c == LowerChar(operation[i])
        IN IF c = " " \/ c = "-" THEN "_" ELSE c]

\* Python's `keyword in text`
Contains(text, keyword) ==
    \E i \in 1..(Len(text) - Len(keyword) + 1) :
        SubSeq(text, i, i + Len(keyword) - 1) = keyword

\* indices of the keywords the normalised name contains
MatchingKeywords(operation) ==
    {k \in 1..Len(BLOCKED_KEYWORDS) :
        Contains(NormalizeOperation(operation), BLOCKED_KEYWORDS[k])}

FirstMatchingKeyword(operation) ==
    CHOOSE k \in MatchingKeywords(operation) :
        \A j \in MatchingKeywords(operation) : k <= j

categorize_service(service_id) ==
    IF service_id = 39 THEN "SECURITY_BYPASS"
    ELSE IF service_id \in {52, 53, 54, 55, 56} THEN "ECU_FLASH"
    ELSE "THEFT_ADJACENT"

record_violation(log, category, kind, id) ==
    Append(log, [category |-> category, kind |-> kind, id |-> id,
                 blocked |-> TRUE])

\* the hooks a caller may register: one that returns, one that raises
Hooks == {"notes", "raises"}

HookRaises(hook) == hook = "raises"

add_violation_hook(registered, hook) == Append(registered, hook)

\* mutant: an exception of a hook ends the notification
RECURSIVE notify_hooks_mut(_, _, _)
notify_hooks_mut(registered, log, calls) ==
    IF registered = <<>> THEN calls
    ELSE LET hook == Head(registered)
             called == Append(calls, [hook |-> hook, violation |-> log[Len(log)],
                                      logged |-> Len(log),
                                      raised |-> HookRaises(hook)])
         IN IF HookRaises(hook) THEN called
            ELSE notify_hooks_mut(Tail(registered), log, called)

\* the notification loop of _record_violation, entered once the violation is
\* the last entry of log: every hook is called with it, an exception of a
\* hook is caught and logged
RECURSIVE notify_hooks(_, _, _)
notify_hooks(registered, log, calls) ==
    IF registered = <<>> THEN calls
    ELSE notify_hooks(Tail(registered), log,
             Append(calls, [hook |-> Head(registered),
                            violation |-> log[Len(log)],
                            logged |-> Len(log),
                            raised |-> HookRaises(Head(registered))]))

\* the hook calls of the violations a call recorded: log[from], log[from + 1], ...
RECURSIVE notify_recorded(_, _, _, _)
notify_recorded(registered, log, from, calls) ==
    IF from > Len(log) THEN calls
    ELSE notify_recorded(registered, log, from + 1,
             notify_hooks(registered, SubSeq(log, 1, from), calls))

\* mutant: the caller is handed the log itself
get_violations_mut(log) == [taken |-> TRUE, items |-> log, shared |-> TRUE]

\* get_violations: a copy of the log, sharing nothing with it
get_violations(log) == [taken |-> TRUE, items |-> log, shared |-> FALSE]

\* Each check returns whether the operation is allowed (ok) and the violation
\* log as the check leaves it (log).
check_operation(log, operation) ==
    IF MatchingKeywords(operation) # {}
    THEN [ok |-> FALSE,
          log |-> record_violation(log, "THEFT_ADJACENT", "Operation",
                                   FirstMatchingKeyword(operation))]
    ELSE [ok |-> TRUE, log |-> log]

check_service(log, service_id) ==
    IF service_id \in BLOCKED_SERVICES
    THEN [ok |-> FALSE,
          log |-> record_violation(log, categorize_service(service_id),
                                   "UDS Service", service_id)]
    ELSE [ok |-> TRUE, log |-> log]

check_write_did(log, did) ==
    IF did \in BLOCKED_WRITE_DIDS
    THEN [ok |-> FALSE,
          log |-> record_violation(log,
                      IF did = 61840 THEN "VIN_TAMPERING" ELSE "ODOMETER",
                      "Write DID", did)]
    ELSE [ok |-> TRUE, log |-> log]

\* mutant: the violation is recorded but the routine is let through
check_routine_mut(log, routine_id) ==
    IF routine_id \in BLOCKED_ROUTINES
    THEN [ok |-> TRUE,
          log |-> record_violation(log, "IMMOBILIZER", "Routine", routine_id)]
    ELSE [ok |-> TRUE, log |-> log]

check_routine(log, routine_id) ==
    IF routine_id \in BLOCKED_ROUTINES
    THEN [ok |-> FALSE,
          log |-> record_violation(log, "IMMOBILIZER", "Routine", routine_id)]
    ELSE [ok |-> TRUE, log |-> log]

\* mutant: every standard reset sub-function up to 0x04 is taken as safe
check_ecu_reset_mut(log, reset_type) ==
    IF reset_type > 4
    THEN [ok |-> FALSE,
          log |-> record_violation(log, "ECU_FLASH", "ECU Reset type",
                                   reset_type)]
    ELSE [ok |-> TRUE, log |-> log]

check_ecu_reset(log, reset_type) ==
    IF reset_type \notin SAFE_RESET_TYPES
    THEN [ok |-> FALSE,
          log |-> record_violation(log, "ECU_FLASH", "ECU Reset type",
                                   reset_type)]
    ELSE [ok |-> TRUE, log |-> log]

\* The dataclass-generated SafetyManager.__init__: the annotated class
\* attributes BLOCKED_SERVICES, BLOCKED_WRITE_DIDS and BLOCKED_ROUTINES are
\* fields, so each is a keyword argument whose default is the class value.
SafetyManager(blocked_services, blocked_write_dids, blocked_routines) ==
    [BLOCKED_SERVICES |-> blocked_services,
     BLOCKED_WRITE_DIDS |-> blocked_write_dids,
     BLOCKED_ROUTINES |-> blocked_routines]

\* the checks as methods of an instance: the sets are read through self
self_check_service(self, log, service_id) ==
    IF service_id \in self.BLOCKED_SERVICES
    THEN [ok |-> FALSE,
          log |-> record_violation(log, categorize_service(service_id),
                                   "UDS Service", service_id)]
    ELSE [ok |-> TRUE, log |-> log]

self_check_write_did(self, log, did) ==
    IF did \in self.BLOCKED_WRITE_DIDS
    THEN [ok |-> FALSE,
          log |-> record_violation(log,
                      IF did = 61840 THEN "VIN_TAMPERING" ELSE "ODOMETER",
                      "Write DID", did)]
    ELSE [ok |-> TRUE, log |-> log]

self_check_routine(self, log, routine_id) ==
    IF routine_id \in self.BLOCKED_ROUTINES
    THEN [ok |-> FALSE,
          log |-> record_violation(log, "IMMOBILIZER", "Routine", routine_id)]
    ELSE [ok |-> TRUE, log |-> log]

----------------------------------------------------------------------------
(* protocols/uds_client.py: UDSClient over transport/mock_transport.py *)

\* The client together with the collaborators a request touches
ClientState ==
    [violations |-> violations, trace |-> trace, session_type |-> session_type,
     is_open |-> is_open, tx_buffer |-> tx_buffer, send_calls |-> send_calls]

\* error_message = None
NoMessage == <<>>

\* the message each raise site of the client gives its error code
ErrorText(code) ==
    CASE code = 252 -> <<"Empty response">>
      [] code = 253 -> <<"No response (timeout)">>
      [] code = 254 -> <<"Failed to send request">>
      [] OTHER -> <<"blocked for safety reasons">>

\* raw_response is passed only with the empty response
UDSError(code, service_id) ==
    [status |-> "error", code |-> code, service_id |-> service_id,
     data |-> <<>>, positive |-> FALSE, error_message |-> ErrorText(code),
     raw_response |-> IF code = 252 THEN <<>> ELSE None]

UDSResponse(service_id, data, positive, error_code, error_message, raw_response) ==
    [status |-> "response", code |-> error_code, service_id |-> service_id,
     data |-> data, positive |-> positive, error_message |-> error_message,
     raw_response |-> raw_response]

\* UDSNegativeResponse(code).name.replace("_", " ").title()
NegativeResponseNames ==
    [c \in {16, 17, 18, 19, 20, 33, 34, 36, 37, 38, 49, 51, 53, 54, 55,
            112, 113, 114, 115, 127} |->
        CASE c = 16 -> "General Reject"
          [] c = 17 -> "Service Not Supported"
          [] c = 18 -> "Sub Function Not Supported"
          [] c = 19 -> "Incorrect Message Length"
          [] c = 20 -> "Response Too Long"
          [] c = 33 -> "Busy Repeat Request"
          [] c = 34 -> "Conditions Not Correct"
          [] c = 36 -> "Request Sequence Error"
          [] c = 37 -> "No Response From Subnet"
          [] c = 38 -> "Failure Prevents Exec"
          [] c = 49 -> "Request Out Of Range"
          [] c = 51 -> "Security Access Denied"
          [] c = 53 -> "Invalid Key"
          [] c = 54 -> "Exceeded Attempts"
          [] c = 55 -> "Required Time Delay"
          [] c = 112 -> "Upload Download Not Accepted"
          [] c = 113 -> "Transfer Data Suspended"
          [] c = 114 -> "General Programming Failure"
          [] c = 115 -> "Wrong Block Sequence"
          [] OTHER -> "Service Not Supported In Session"]

get_error_message(code) ==
    IF code \in DOMAIN NegativeResponseNames
    THEN <<NegativeResponseNames[code]>>
    ELSE <<"Unknown Error", code>>

add_trace(tr, direction, service_id, data) ==
    Append(tr, [direction |-> direction, service_id |-> service_id,
                data |-> data])

\* mutant: whatever is not a negative response is taken as positive
parse_response_mut(st, request_service_id, request, response) ==
    IF Len(response) < 1
    THEN [st |-> st, out |-> UDSError(252, request_service_id)]
    ELSE IF response[1] = 127 /\ Len(response) >= 3
    THEN [st |-> [st EXCEPT !.trace = add_trace(@, "RX", response[1], response)],
          out |-> UDSResponse(response[2], Slice(response, 3, Len(response)),
                              FALSE, response[3], get_error_message(response[3]),
                              response)]
    ELSE [st |-> [st EXCEPT !.trace = add_trace(@, "RX", response[1], response)],
          out |-> UDSResponse(request_service_id, Tail(response), TRUE, 0,
                              NoMessage, response)]

parse_response(st, request_service_id, request, response) ==
    IF Len(response) < 1
    THEN [st |-> st, out |-> UDSError(252, request_service_id)]
    ELSE IF response[1] = request_service_id + 64
    THEN [st |-> [st EXCEPT !.trace = add_trace(@, "RX", response[1], response)],
          out |-> UDSResponse(request_service_id, Tail(response), TRUE, 0,
                              NoMessage, response)]
    ELSE IF response[1] = 127 /\ Len(response) >= 3
    THEN [st |-> [st EXCEPT !.trace = add_trace(@, "RX", response[1], response)],
          out |-> UDSResponse(response[2], Slice(response, 3, Len(response)),
                              FALSE, response[3], get_error_message(response[3]),
                              response)]
    ELSE [st |-> [st EXCEPT !.trace = add_trace(@, "RX", response[1], response)],
          out |-> UDSResponse(response[1], Tail(response), FALSE, 251,
                              <<"Unexpected response format">>, response)]

\* MockTransport.send: refuses when closed, otherwise the request is on the wire
transport_send(st, request) ==
    IF ~st.is_open
    THEN [ok |-> FALSE, st |-> [st EXCEPT !.send_calls = @ + 1]]
    ELSE [ok |-> TRUE,
          st |-> [st EXCEPT !.send_calls = @ + 1,
                            !.tx_buffer = Append(@, request)]]

\* mutant: the gate is consulted but a rejection does not stop the request
send_request_mut(st, service_id, data, check_safety, response) ==
    LET gate == IF check_safety THEN check_service(st.violations, service_id)
                ELSE [ok |-> TRUE, log |-> st.violations]
        request == <<service_id>> \o data
        st1 == [st EXCEPT !.violations = gate.log,
                          !.trace = add_trace(@, "TX", service_id, request)]
        sent == transport_send(st1, request)
    IN IF ~sent.ok
       THEN [st |-> sent.st, out |-> UDSError(254, service_id)]
       ELSE IF ~gate.ok
       THEN [st |-> sent.st, out |-> UDSError(255, service_id)]
       ELSE IF response = None
       THEN [st |-> sent.st, out |-> UDSError(253, service_id)]
       ELSE parse_response(sent.st, service_id, request, response)

\* response is what transport.receive returns for this request (None: timeout)
send_request(st, service_id, data, check_safety, response) ==
    LET gate == IF check_safety THEN check_service(st.violations, service_id)
                ELSE [ok |-> TRUE, log |-> st.violations]
    IN IF ~gate.ok
       THEN [st |-> [st EXCEPT !.violations = gate.log],
             out |-> UDSError(255, service_id)]
       ELSE LET request == <<service_id>> \o data
                st1 == [st EXCEPT !.trace = add_trace(@, "TX", service_id, request)]
                sent == transport_send(st1, request)
            IN IF ~sent.ok
               THEN [st |-> sent.st, out |-> UDSError(254, service_id)]
               ELSE IF response = None
               THEN [st |-> sent.st, out |-> UDSError(253, service_id)]
               ELSE parse_response(sent.st, service_id, request, response)

diagnostic_session_control(st, session, response) ==
    LET r == send_request(st, 16, <<session>>, TRUE, response)
    IN IF r.out.status = "response" /\ r.out.positive
       THEN [r EXCEPT !.st.session_type = session]
       ELSE r

ecu_reset(st, reset_type, response) ==
    LET c == check_ecu_reset(st.violations, reset_type)
    IN IF ~c.ok
       THEN [st |-> [st EXCEPT !.violations = c.log], out |-> UDSError(255, 17)]
       ELSE send_request(st, 17, <<reset_type>>, TRUE, response)

write_data_by_id(st, data_id, data, response) ==
    LET c == check_write_did(st.violations, data_id)
    IN IF ~c.ok
       THEN [st |-> [st EXCEPT !.violations = c.log], out |-> UDSError(255, 46)]
       ELSE send_request(st, 46, to_bytes2(data_id) \o data, TRUE, response)

routine_control(st, control_type, routine_id, data, response) ==
    LET c == check_routine(st.violations, routine_id)
    IN IF ~c.ok
       THEN [st |-> [st EXCEPT !.violations = c.log], out |-> UDSError(255, 49)]
       ELSE send_request(st, 49,
                         <<control_type>> \o to_bytes2(routine_id) \o data,
                         TRUE, response)

read_data_by_id(st, data_id, response) ==
    send_request(st, 34, to_bytes2(data_id), TRUE, response)

read_dtc_info(st, sub_function, data, response) ==
    send_request(st, 25, <<sub_function>> \o data, TRUE, response)

----------------------------------------------------------------------------
(* app.py: IsoTpHandler.  rx is the stream of results of the successive    *)
(* _recv_frame calls of one operation: a frame (8 bytes) or None when the   *)
(* call timed out; past the end of the stream every call times out.        *)

FC_CONTINUE == 48

HiNib(b) == (b \div 16) * 16

LoNib(b) == b % 16

Falsy(x) == x = None \/ x = <<>>

Pad(frame, n) == frame \o [i \in 1..(n - Len(frame)) |-> 0]

CanMessage(arbitration_id, data) ==
    [arbitration_id |-> arbitration_id, data |-> data, is_extended_id |-> FALSE]

recv_frame(rx, k) == IF k <= Len(rx) THEN rx[k] ELSE None

\* the Consecutive Frame loop of _receive_isotp; k is the next stream index
RECURSIVE receive_cfs(_, _, _, _, _)
receive_cfs(rx, k, data, length, expected_seq) ==
    IF Len(data) >= length
    THEN [payload |-> Slice(data, 0, length), next |-> k]
    ELSE LET cf == recv_frame(rx, k)
         IN IF Falsy(cf)
            THEN [payload |-> Slice(data, 0, length), next |-> k + 1]
            ELSE IF HiNib(cf[1]) # 32
            THEN IF HiNib(cf[1]) = 0 /\ cf[1] = 3 /\ Len(cf) > 1 /\ cf[2] = 127
                 THEN [payload |-> Slice(cf, 1, cf[1] + 1), next |-> k + 1]
                 ELSE [payload |-> Slice(data, 0, length), next |-> k + 1]
            ELSE IF LoNib(cf[1]) # expected_seq
            THEN [payload |-> Slice(data, 0, length), next |-> k + 1]
            ELSE receive_cfs(rx, k + 1, data \o Slice(cf, 1, 8), length,
                             (expected_seq + 1) % 16)

\* mutant: the declared length is read from the second byte alone
receive_isotp_mut(bus, tx_id, block_size, st_min, rx, k) ==
    LET frame == recv_frame(rx, k)
    IN IF Falsy(frame)
       THEN [bus |-> bus, payload |-> None, next |-> k + 1]
       ELSE IF HiNib(frame[1]) = 0
       THEN [bus |-> bus, payload |-> Slice(frame, 1, 1 + LoNib(frame[1])),
             next |-> k + 1]
       ELSE IF HiNib(frame[1]) = 16
       THEN LET length == frame[2]
                fc == CanMessage(tx_id,
                          <<FC_CONTINUE, block_size, st_min, 0, 0, 0, 0, 0>>)
                r == receive_cfs(rx, k + 1, Slice(frame, 2, 8), length, 1)
            IN [bus |-> Append(bus, fc), payload |-> r.payload, next |-> r.next]
       ELSE [bus |-> bus,
             payload |-> IF frame[1] > 0 THEN Tail(frame) ELSE None,
             next |-> k + 1]

\* _receive_isotp: the reassembled payload (None: nothing delivered) and the
\* bus with the Flow Control frame the receiver sent, if any
receive_isotp(bus, tx_id, block_size, st_min, rx, k) ==
    LET frame == recv_frame(rx, k)
    IN IF Falsy(frame)
       THEN [bus |-> bus, payload |-> None, next |-> k + 1]
       ELSE IF HiNib(frame[1]) = 0
       THEN [bus |-> bus, payload |-> Slice(frame, 1, 1 + LoNib(frame[1])),
             next |-> k + 1]
       ELSE IF HiNib(frame[1]) = 16
       THEN LET length == LoNib(frame[1]) * 256 + frame[2]
                fc == CanMessage(tx_id,
                          <<FC_CONTINUE, block_size, st_min, 0, 0, 0, 0, 0>>)
                r == receive_cfs(rx, k + 1, Slice(frame, 2, 8), length, 1)
            IN [bus |-> Append(bus, fc), payload |-> r.payload, next |-> r.next]
       ELSE IF frame[1] = 3 /\ Len(frame) > 1 /\ frame[2] = 127
       THEN [bus |-> bus, payload |-> Slice(frame, 1, 4), next |-> k + 1]
       ELSE [bus |-> bus,
             payload |-> IF frame[1] > 0 THEN Tail(frame) ELSE None,
             next |-> k + 1]

\* the Consecutive Frame loop of send_receive; ok = FALSE when a Flow Control
\* frame due after a full block did not arrive
RECURSIVE send_cfs(_, _, _, _, _, _, _, _)
send_cfs(bus, tx_id, data, rx, k, seq, offset, st) ==
    IF offset >= Len(data)
    THEN [bus |-> bus, ok |-> TRUE, next |-> k]
    ELSE LET cf == Pad(<<32 + (seq % 16)>> \o Slice(data, offset, offset + 7), 8)
             bus1 == Append(bus, CanMessage(tx_id, cf))
             sent == st.frames_sent + 1
         IN IF st.fc_block_size > 0 /\ sent >= st.fc_block_size
               /\ offset + 7 < Len(data)
            THEN LET fc == recv_frame(rx, k)
                 IN IF Falsy(fc) \/ HiNib(fc[1]) # 48
                    THEN [bus |-> bus1, ok |-> FALSE, next |-> k + 1]
                    ELSE send_cfs(bus1, tx_id, data, rx, k + 1, (seq + 1) % 16,
                                  offset + 7, [st EXCEPT !.frames_sent = 0])
            ELSE send_cfs(bus1, tx_id, data, rx, k, (seq + 1) % 16,
                          offset + 7, [st EXCEPT !.frames_sent = sent])

\* mutant: the Consecutive Frames follow the First Frame without Flow Control
send_receive_mut(bus, tx_id, data, rx) ==
    IF Len(data) <= 7
    THEN receive_isotp(Append(bus, CanMessage(tx_id, Pad(<<Len(data)>> \o data, 8))),
                       tx_id, 0, 0, rx, 1)
    ELSE LET length == Len(data)
             first_frame == <<16 + ((length \div 256) % 16), length % 256>>
                                \o Slice(data, 0, 6)
             bus1 == Append(bus, CanMessage(tx_id, first_frame))
             s == send_cfs(bus1, tx_id, data, rx, 2, 1, 6,
                           [fc_block_size |-> 0, frames_sent |-> 0])
         IN receive_isotp(s.bus, tx_id, 0, 0, rx, s.next)

\* send_receive of a handler built with the default block_size = 0, st_min = 0
send_receive(bus, tx_id, data, rx) ==
    IF Len(data) <= 7
    THEN receive_isotp(Append(bus, CanMessage(tx_id, Pad(<<Len(data)>> \o data, 8))),
                       tx_id, 0, 0, rx, 1)
    ELSE LET length == Len(data)
             first_frame == <<16 + ((length \div 256) % 16), length % 256>>
                                \o Slice(data, 0, 6)
             bus1 == Append(bus, CanMessage(tx_id, first_frame))
             fc == recv_frame(rx, 1)
         IN IF Falsy(fc) \/ HiNib(fc[1]) # 48
            THEN [bus |-> bus1, payload |-> None, next |-> 2]
            ELSE LET s == send_cfs(bus1, tx_id, data, rx, 2, 1, 6,
                              [fc_block_size |-> IF Len(fc) > 1 THEN fc[2] ELSE 0,
                               frames_sent |-> 0])
                 IN IF ~s.ok
                    THEN [bus |-> s.bus, payload |-> None, next |-> s.next]
                    ELSE receive_isotp(s.bus, tx_id, 0, 0, rx, s.next)

----------------------------------------------------------------------------
(* app.py: CANWorker operations, which talk to the bus through their own   *)
(* IsoTpHandler                                                            *)

UDS_DIAGNOSTIC_SESSION == 16

UDS_SECURITY_ACCESS == 39

UDS_ROUTINE_CONTROL == 49

SECURITY_LEVEL_01 == 1

SECURITY_LEVEL_03 == 3

SESSION_EXTENDED == 3

ROUTINE_CBS_RESET_BASE == 256

\* BMW_ECUS: request arbitration ids of the modules the worker addresses
DME_TX == 2016

KOMBI_TX == 1824

AllZero(bytes) == \A i \in 1..Len(bytes) : bytes[i] = 0

calculate_security_key(seed, level) ==
    LET xor_mask == IF level = SECURITY_LEVEL_01 THEN <<165, 150, 195, 90>>
                    ELSE IF level = SECURITY_LEVEL_03 THEN <<62, 193, 135, 45>>
                    ELSE <<90, 165, 105, 150>>
    IN [i \in 1..Len(seed) |-> BitXor(seed[i], xor_mask[((i - 1) % 4) + 1], 8)]

enter_session(bus, tx_id, session, rx) ==
    LET r == send_receive(bus, tx_id, <<UDS_DIAGNOSTIC_SESSION, session>>, rx)
    IN [bus |-> r.bus,
        ok |-> ~Falsy(r.payload) /\ Len(r.payload) >= 2
               /\ r.payload[1] = UDS_DIAGNOSTIC_SESSION + 64]

security_access(bus, tx_id, level, rx1, rx2) ==
    LET r1 == send_receive(bus, tx_id, <<UDS_SECURITY_ACCESS, level>>, rx1)
    IN IF Falsy(r1.payload) \/ Len(r1.payload) < 3
       THEN [bus |-> r1.bus, ok |-> FALSE]
       ELSE IF r1.payload[1] # UDS_SECURITY_ACCESS + 64
       THEN [bus |-> r1.bus, ok |-> FALSE]
       ELSE LET seed == Slice(r1.payload, 2, Len(r1.payload))
            IN IF AllZero(seed)
               THEN [bus |-> r1.bus, ok |-> TRUE]
               ELSE LET key == calculate_security_key(seed, level)
                        r2 == send_receive(r1.bus, tx_id,
                                  <<UDS_SECURITY_ACCESS, level + 1>> \o key, rx2)
                    IN [bus |-> r2.bus,
                        ok |-> ~Falsy(r2.payload) /\ Len(r2.payload) >= 2
                               /\ r2.payload[1] = UDS_SECURITY_ACCESS + 64]

service_reset(bus, cbs_type, rx1, rx2) ==
    LET e == enter_session(bus, KOMBI_TX, SESSION_EXTENDED, rx1)
    IN IF ~e.ok
       THEN [bus |-> e.bus, ok |-> FALSE]
       ELSE LET routine_id == ROUTINE_CBS_RESET_BASE + cbs_type
                r == send_receive(e.bus, KOMBI_TX,
                         <<UDS_ROUTINE_CONTROL, 1, Hi(routine_id), Lo(routine_id)>>,
                         rx2)
            IN [bus |-> r.bus,
                ok |-> ~Falsy(r.payload) /\ Len(r.payload) >= 1
                       /\ r.payload[1] = UDS_ROUTINE_CONTROL + 64]

----------------------------------------------------------------------------
(* bmw/module_registry.py: ModuleRegistry *)

\* four of the built-in definitions, in the order they are inserted
Builtin ==
    << [module_id |-> "KOMBI", address |-> 96, priority |-> 60,
        supports_extended_session |-> TRUE],
       [module_id |-> "CAS", address |-> 64, priority |-> 75,
        supports_extended_session |-> TRUE],
       [module_id |-> "FRM", address |-> 22, priority |-> 50,
        supports_extended_session |-> TRUE],
       [module_id |-> "ACSM", address |-> 100, priority |-> 80,
        supports_extended_session |-> TRUE] >>

\* the registry's contents: the first NumModules definitions
registry == SubSeq(Builtin, 1, NumModules)

Addresses == {registry[i].address : i \in 1..Len(registry)}

\* insert m behind every definition of the same or a higher priority
RECURSIVE InsertByPriority(_, _)
InsertByPriority(sorted, m) ==
    IF sorted = <<>> THEN <<m>>
    ELSE IF Head(sorted).priority >= m.priority
    THEN <<Head(sorted)>> \o InsertByPriority(Tail(sorted), m)
    ELSE <<m>> \o sorted

\* sorted(..., key=priority, reverse=True): stable, highest priority first
RECURSIVE SortByPriority(_)
SortByPriority(ms) ==
    IF ms = <<>> THEN <<>>
    ELSE InsertByPriority(SortByPriority(SubSeq(ms, 1, Len(ms) - 1)), ms[Len(ms)])

get_all_modules == SortByPriority(registry)

----------------------------------------------------------------------------
(* sim/mock_ecus.py: what a module answers.  "faults0" and "faults2" are   *)
(* the MockECU with that many stored DTCs matching the mask; the other kinds *)
(* are the ways a module on a real bus departs from it.                     *)

EcuKinds == {"absent", "rejects", "faults0", "faults2", "malformed", "nodtc"}

\* SimulationConfig.module_dtcs: a module with two stored codes, as the DME has
MockDTCs(kind) ==
    IF kind = "faults2"
    THEN << [code |-> 65792, status |-> 8], [code |-> 77824, status |-> 4] >>
    ELSE <<>>

RECURSIVE BitAnd(_, _, _)
BitAnd(a, b, n) ==
    IF n = 0 THEN 0
    ELSE ((a % 2) * (b % 2)) + 2 * BitAnd(a \div 2, b \div 2, n - 1)

to_bytes3(w) == <<(w \div 65536) % 256, (w \div 256) % 256, w % 256>>

\* sum(1 for d in self._dtcs if d.status & mask)
RECURSIVE DTCCount(_, _)
DTCCount(dtcs, mask) ==
    IF dtcs = <<>> THEN 0
    ELSE (IF BitAnd(Head(dtcs).status, mask, 8) # 0 THEN 1 ELSE 0)
         + DTCCount(Tail(dtcs), mask)

RECURSIVE DTCRecords(_, _)
DTCRecords(dtcs, mask) ==
    IF dtcs = <<>> THEN <<>>
    ELSE (IF BitAnd(Head(dtcs).status, mask, 8) # 0
          THEN to_bytes3(Head(dtcs).code) \o <<Head(dtcs).status>>
          ELSE <<>>)
         \o DTCRecords(Tail(dtcs), mask)

VER_KOMBI == <<69, 57, 50, 95, 75, 79, 77, 66, 73, 95, 86, 49, 46, 50, 51>>

VER_CAS == <<69, 57, 50, 95, 67, 65, 83, 95, 86, 49, 46, 50, 51>>

VER_FRM == <<69, 57, 50, 95, 70, 82, 77, 95, 86, 49, 46, 50, 51>>

VER_ACSM == <<69, 57, 50, 95, 65, 67, 83, 77, 95, 86, 49, 46, 50, 51>>

VersionBytes(address) ==
    CASE address = 96 -> VER_KOMBI
      [] address = 64 -> VER_CAS
      [] address = 22 -> VER_FRM
      [] OTHER -> VER_ACSM

positive_response(service_id, data) == <<service_id + 64>> \o data

negative_response(service_id, nrc) == <<127, service_id, nrc>>

handle_session_control(data) ==
    IF Len(data) < 1 THEN negative_response(16, 19)
    ELSE IF data[1] \in {1, 3}
    THEN positive_response(16, <<data[1], 0, 25, 1, 244>>)
    ELSE negative_response(16, 18)

handle_read_dtc(kind, data) ==
    LET mask == IF Len(data) > 1 THEN data[2] ELSE 255
    IN IF Len(data) < 1 THEN negative_response(25, 19)
       ELSE IF data[1] = 1
       THEN IF kind = "malformed" THEN positive_response(25, <<data[1], 255>>)
            ELSE positive_response(25, <<data[1], 255, 1>>
                     \o to_bytes2(DTCCount(MockDTCs(kind), mask)))
       ELSE IF data[1] = 2
       THEN positive_response(25, <<data[1], 255>>
                \o DTCRecords(MockDTCs(kind), mask))
       ELSE negative_response(25, 18)

\* b"WBSWD93537P"
VIN_PREFIX == <<87, 66, 83, 87, 68, 57, 51, 53, 51, 55, 80>>

\* module_id.encode() of the module registered at the address
ModuleIdBytes(address) ==
    CASE address = 96 -> <<75, 79, 77, 66, 73>>
      [] address = 64 -> <<67, 65, 83>>
      [] address = 22 -> <<70, 82, 77>>
      [] OTHER -> <<65, 67, 83, 77>>

\* bytes.ljust(width, fill)
LJust(b, width, fill) ==
    IF Len(b) >= width THEN b ELSE b \o [i \in 1..(width - Len(b)) |-> fill]

VinBytes(address) ==
    VIN_PREFIX \o LJust(Slice(ModuleIdBytes(address), 0, 6), 6, 48)

handle_tester_present(data) ==
    LET sub_function == IF data # <<>> THEN data[1] ELSE 0
    IN IF BitAnd(sub_function, 128, 8) # 0 THEN <<>>
       ELSE positive_response(62, <<BitAnd(sub_function, 127, 8)>>)

\* MockTransport.send queues the ECU's response only `if response`; receive
\* returns None when nothing is queued
Queued(response) == IF response = <<>> THEN None ELSE response

handle_read_data(address, data) ==
    IF Len(data) < 2 THEN negative_response(34, 19)
    ELSE IF from_bytes_big(SubSeq(data, 1, 2)) = 61840
    THEN positive_response(34, SubSeq(data, 1, 2) \o VinBytes(address))
    ELSE IF from_bytes_big(SubSeq(data, 1, 2)) = 61844
    THEN positive_response(34, SubSeq(data, 1, 2) \o Slice(VersionBytes(address), 0, 20))
    ELSE negative_response(34, 49)

\* the reply transport.receive returns for a request routed to address
process_request(address, kind, request) ==
    IF kind = "absent" \/ Len(request) < 1 THEN None
    ELSE IF kind = "rejects" THEN negative_response(request[1], 34)
    ELSE IF request[1] = 16 THEN handle_session_control(Tail(request))
    ELSE IF request[1] = 25
    THEN IF kind = "nodtc" THEN None ELSE handle_read_dtc(kind, Tail(request))
    ELSE IF request[1] = 34 THEN handle_read_data(address, Tail(request))
    ELSE IF request[1] = 62 THEN Queued(handle_tester_present(Tail(request)))
    ELSE negative_response(request[1], 17)

\* MockECUManager._initialize_ecus: addresses of DME, DSC and KOMBI
MockAddresses == {18, 86, 96}

\* SimulationConfig.__post_init__: the DTC list configured for each of them
ConfiguredDTCs(address) ==
    IF address = 18
    THEN << [code |-> 65792, status |-> 8], [code |-> 77824, status |-> 4] >>
    ELSE IF address = 86 THEN << [code |-> 12648704, status |-> 8] >>
    ELSE <<>>

\* the list MockECU._dtcs of the ECU at the address
DtcsOf(refs, lists, address) == lists[refs[address]]

MaxDtcs == 2

\* mutant: the clear empties the list of every module
handle_clear_dtc_mut(refs, lists, address) ==
    [lists |-> [l \in DOMAIN lists |-> <<>>],
     response |-> positive_response(20, <<>>)]

\* MockECU._handle_clear_dtc: self._dtcs.clear(), whatever the group is
handle_clear_dtc(refs, lists, address) ==
    [lists |-> [lists EXCEPT ![refs[address]] = <<>>],
     response |-> positive_response(20, <<>>)]

\* MockECUManager.process_request on the ECUs with a DTC list: the clear,
\* the DTC count, and the services a MockECU has no handler for
manager_process_request(refs, lists, target, request) ==
    IF target \notin DOMAIN refs \/ Len(request) < 1
    THEN [lists |-> lists, response |-> None]
    ELSE IF request[1] = 20 THEN handle_clear_dtc(refs, lists, target)
    ELSE IF request[1] = 25 /\ Len(request) >= 2 /\ request[2] = 1
    THEN [lists |-> lists,
          response |->
              positive_response(25, <<1, 255, 1>>
                  \o to_bytes2(DTCCount(DtcsOf(refs, lists, target),
                                        IF Len(request) > 2 THEN request[3]
                                        ELSE 255)))]
    ELSE [lists |-> lists, response |-> negative_response(request[1], 17)]

\* MockECUManager.add_dtc: appended to the list of the module's ECU
add_dtc(refs, lists, address, dtc) ==
    [lists EXCEPT ![refs[address]] = Append(@, dtc)]

\* MockECUManager.clear_all_dtcs
clear_all_dtcs(refs, lists) ==
    [l \in DOMAIN lists |->
        IF \E a \in DOMAIN refs : refs[a] = l THEN <<>> ELSE lists[l]]

\* MockECUManager.process_request: no module at the address, no response
EcuReply(address, request) ==
    IF address \in DOMAIN ecu
    THEN process_request(address, ecu[address], request)
    ELSE None

----------------------------------------------------------------------------
(* bmw/module_scan.py: ModuleScanner *)

Callers == {1, 2}

DEFAULT_SESSION == 1

EXTENDED_SESSION == 3

REPORT_NUMBER_OF_DTC_BY_STATUS_MASK == 1

\* DTCStatusMask.CONFIRMED_DTC | DTCStatusMask.PENDING_DTC
SCAN_STATUS_MASK == 12

NoText == <<>>

NewScanResult ==
    [modules |-> <<>>, total_modules |-> 0, responding_modules |-> 0,
     modules_with_faults |-> 0, total_faults |-> 0, aborted |-> FALSE]

NewModuleScanResult(module_def) ==
    [module_id |-> module_def.module_id, address |-> module_def.address,
     responding |-> FALSE, has_faults |-> FALSE, fault_count |-> 0,
     software_version |-> NoText, error_message |-> NoText]

\* the argument modules of scan_all: None, or a list of definitions
NoModules == [given |-> FALSE, list |-> <<>>]

Listed(list) == [given |-> TRUE, list |-> list]

\* a caller that has not entered scan_all; progress and complete are what its
\* callbacks received, abort_seen whether abort() took effect while it scanned
IdleScan ==
    [pc |-> "idle", modules |-> NoModules, modules_to_scan |-> <<>>, i |-> 0,
     result |-> NewScanResult, progress |-> <<>>, complete |-> <<>>,
     abort_seen |-> FALSE]

IsWhitespace(b) == b \in {9, 10, 11, 12, 13, 32}

RECURSIVE LStrip(_)
LStrip(b) == IF b # <<>> /\ IsWhitespace(Head(b)) THEN LStrip(Tail(b)) ELSE b

RECURSIVE RStrip(_)
RStrip(b) ==
    IF b # <<>> /\ IsWhitespace(b[Len(b)]) THEN RStrip(SubSeq(b, 1, Len(b) - 1))
    ELSE b

IsAscii(b) == b < 128

\* bytes.decode("ascii", errors="ignore").strip()
DecodeAsciiStrip(b) == RStrip(LStrip(SelectSeq(b, IsAscii)))

\* mutant: the count is stored but has_faults is left as it was
read_dtc_count_mut(mr, out) ==
    IF out.status = "response" /\ out.positive /\ Len(out.data) >= 4
    THEN [mr EXCEPT !.fault_count = from_bytes_big(Slice(out.data, 2, 4))]
    ELSE mr

\* the DTC-count step of _scan_module applied to the client's outcome
read_dtc_count(mr, out) ==
    IF out.status = "response" /\ out.positive /\ Len(out.data) >= 4
    THEN LET n == from_bytes_big(Slice(out.data, 2, 4))
         IN [mr EXCEPT !.fault_count = n, !.has_faults = n > 0]
    ELSE mr

\* the software-version step of _scan_module
read_version(mr, out) ==
    IF out.status = "response" /\ out.positive /\ out.data # <<>>
    THEN [mr EXCEPT !.software_version = DecodeAsciiStrip(Slice(out.data, 0, 20))]
    ELSE mr

\* the counters scan_all keeps while appending a module's result
\* mutant: every recorded module is counted as responding
add_module_result_mut(result, mr) ==
    LET r1 == [result EXCEPT !.modules = Append(@, mr),
                             !.responding_modules = @ + 1]
    IN IF mr.responding /\ mr.has_faults
       THEN [r1 EXCEPT !.modules_with_faults = @ + 1,
                       !.total_faults = @ + mr.fault_count]
       ELSE r1

\* mutant: a module with faults adds one to total_faults
add_module_result_mut_faults(result, mr) ==
    LET r1 == [result EXCEPT !.modules = Append(@, mr)]
        r2 == IF mr.responding
              THEN [r1 EXCEPT !.responding_modules = @ + 1]
              ELSE r1
    IN IF mr.responding /\ mr.has_faults
       THEN [r2 EXCEPT !.modules_with_faults = @ + 1,
                       !.total_faults = @ + 1]
       ELSE r2

add_module_result(result, mr) ==
    LET r1 == [result EXCEPT !.modules = Append(@, mr)]
        r2 == IF mr.responding
              THEN [r1 EXCEPT !.responding_modules = @ + 1]
              ELSE r1
    IN IF mr.responding /\ mr.has_faults
       THEN [r2 EXCEPT !.modules_with_faults = @ + 1,
                       !.total_faults = @ + mr.fault_count]
       ELSE r2

\* _scan_module: the probe of one module through the client st
scan_module(st, module_def) ==
    LET a == module_def.address
        mr0 == NewModuleScanResult(module_def)
        r1 == diagnostic_session_control(st, DEFAULT_SESSION,
                                         EcuReply(a, <<16, DEFAULT_SESSION>>))
        mr1 == [mr0 EXCEPT !.responding = TRUE]
        r2 == IF module_def.supports_extended_session
              THEN diagnostic_session_control(r1.st, EXTENDED_SESSION,
                                              EcuReply(a, <<16, EXTENDED_SESSION>>))
              ELSE r1
        dtc_request == <<REPORT_NUMBER_OF_DTC_BY_STATUS_MASK, SCAN_STATUS_MASK>>
        r3 == read_dtc_info(r2.st, REPORT_NUMBER_OF_DTC_BY_STATUS_MASK,
                            <<SCAN_STATUS_MASK>>,
                            EcuReply(a, <<25>> \o dtc_request))
        mr3 == read_dtc_count(mr1, r3.out)
        r4 == read_data_by_id(r3.st, 61844, EcuReply(a, <<34>> \o to_bytes2(61844)))
        mr4 == read_version(mr3, r4.out)
    IN IF r1.out.status = "error"
       THEN [st |-> r1.st,
             result |-> [mr0 EXCEPT !.error_message = <<"UDSError", r1.out.code>>]]
       ELSE IF ~r1.out.positive
       THEN [st |-> r1.st,
             result |-> [mr0 EXCEPT !.error_message =
                             <<"Session control failed", r1.out.code>>]]
       ELSE [st |-> r4.st, result |-> mr4]

ModuleStatus(mr) ==
    [module_id |-> mr.module_id, address |-> mr.address,
     responding |-> mr.responding, has_faults |-> mr.has_faults,
     fault_count |-> mr.fault_count, software_version |-> mr.software_version]

----------------------------------------------------------------------------
(* app.py: CANWorker.run and its class-level guard.  A worker is "started" *)
(* once constructed and started, "locked" while inside the try block,       *)
(* "finished" once it has emitted its result and before the finally block,  *)
(* "refused" when run returned at the guard, "done" after the finally.      *)

Workers == {1, 2, 3}

WorkerOperations == {"scan", "read_dtc", "bogus"}

IdleWorker == [pc |-> "idle", operation |-> "none", io |-> 0, result |-> <<>>]

\* CANWorker(operation, interface).start()
CANWorker(operation) ==
    [pc |-> "started", operation |-> operation, io |-> 0, result |-> <<>>]

\* mutant: the guard is taken whoever holds it
tryLock_mut(m, w) == [ok |-> TRUE, mutex |-> [m EXCEPT !.locked_by = w]]

\* QMutex.tryLock by the thread of worker w
tryLock(m, w) ==
    IF m.locked_by = 0
    THEN [ok |-> TRUE, mutex |-> [m EXCEPT !.locked_by = w]]
    ELSE [ok |-> FALSE, mutex |-> m]

\* QMutex.unlock
unlock(m) == [m EXCEPT !.locked_by = 0]

\* the head of run: the guard, then _is_running = True
run_guard(m, worker, w) ==
    LET l == tryLock(m, w)
    IN IF ~l.ok
       THEN [mutex |-> l.mutex,
             worker |-> [worker EXCEPT
                            !.pc = "refused",
                            !.result = <<"error",
                                         "Another operation is in progress">>]]
       ELSE [mutex |-> [l.mutex EXCEPT !.is_running = TRUE],
             worker |-> [worker EXCEPT !.pc = "locked"]]

\* the try block: the bus is opened and the operation dispatched; raised
\* tells whether opening the bus or the operation raised an exception
run_operation(worker, raised) ==
    IF raised
    THEN [worker EXCEPT !.pc = "finished", !.io = @ + 1,
                        !.result = <<"error", "exception">>]
    ELSE IF worker.operation \in {"scan", "read_dtc"}
    THEN [worker EXCEPT !.pc = "finished", !.io = @ + 1,
                        !.result = <<"results", worker.operation>>]
    ELSE [worker EXCEPT !.pc = "finished", !.io = @ + 1,
                        !.result = <<"error", "Unknown operation">>]

----------------------------------------------------------------------------
(* protocols/uds_client.py: tester_present and read_vin *)

tester_present(st, suppress_response, response) ==
    LET sub_function == IF suppress_response THEN 128 ELSE 0
    IN send_request(st, 62, <<sub_function>>, TRUE, response)

VIN_DID == 61840

\* the fields and methods of the UDSResponse dataclass
UDSResponseAttributes ==
    {"service_id", "data", "positive", "error_code", "error_message",
     "raw_request", "raw_response", "timestamp", "get_data_int"}

\* the return value of read_vin: the VIN's characters or None
VinResult(st, vin) ==
    [st |-> st,
     out |-> [status |-> "vin", code |-> 0, service_id |-> 34, data |-> vin,
              positive |-> vin # None, error_message |-> NoMessage,
              raw_response |-> None]]

\* read_vin catches every exception and returns None: the UDSError of the
\* client and the AttributeError of reading an attribute the response
\* object does not have
read_vin(st, response) ==
    LET r == read_data_by_id(st, VIN_DID, response)
    IN IF r.out.status = "error" THEN VinResult(r.st, None)
       ELSE IF "is_positive" \notin UDSResponseAttributes
       THEN VinResult(r.st, None)
       ELSE IF r.out.positive /\ r.out.data # <<>>
       THEN LET vin_data == IF Len(r.out.data) > 2
                            THEN Slice(r.out.data, 2, Len(r.out.data))
                            ELSE r.out.data
                vin == DecodeAsciiStrip(vin_data)
            IN IF Len(vin) >= 11 THEN VinResult(r.st, vin)
               ELSE VinResult(r.st, None)
       ELSE VinResult(r.st, None)

----------------------------------------------------------------------------
(* bmw/services.py: ECUResetService over the client.  svc is the service's *)
(* state and the profile's service records, target the client's target     *)
(* address; an exception of the client is caught by execute.               *)

RESET_HARD == 1

ServiceResult(success, message) ==
    [status |-> "service_result", code |-> 0, service_id |-> 17, data |-> <<>>,
     positive |-> success, error_message |-> <<message>>, raw_response |-> None]

ServiceRecord(module_address, reset_type) ==
    [service_name |-> "ECU Reset", module |-> module_address, success |-> TRUE,
     reset_type |-> reset_type]

ecu_reset_service_execute(st, svc, target, module_address, reset_type, session_response, reset_response) ==
    LET c == check_ecu_reset(st.violations, reset_type)
    IN IF ~c.ok
       THEN [st |-> [st EXCEPT !.violations = c.log], svc |-> svc,
             target |-> target,
             out |-> ServiceResult(FALSE, "blocked for safety reasons")]
       ELSE LET s == diagnostic_session_control(st, EXTENDED_SESSION,
                                                session_response)
            IN IF s.out.status = "error"
               THEN [st |-> s.st, svc |-> [svc EXCEPT !.state = "FAILED"],
                     target |-> module_address,
                     out |-> ServiceResult(FALSE, s.out.error_message[1])]
               ELSE IF ~s.out.positive
               THEN [st |-> s.st, svc |-> [svc EXCEPT !.state = "EXECUTING"],
                     target |-> module_address,
                     out |-> ServiceResult(FALSE,
                                           "Failed to enter extended session")]
               ELSE LET r == ecu_reset(s.st, reset_type, reset_response)
                    IN IF r.out.status = "error"
                       THEN [st |-> r.st,
                             svc |-> [svc EXCEPT !.state = "FAILED"],
                             target |-> module_address,
                             out |-> ServiceResult(FALSE,
                                                   r.out.error_message[1])]
                       ELSE IF r.out.positive
                       THEN [st |-> r.st,
                             svc |-> [state |-> "COMPLETE",
                                      records |->
                                          Append(svc.records,
                                                 ServiceRecord(module_address,
                                                               reset_type))],
                             target |-> module_address,
                             out |-> ServiceResult(TRUE, "ECU reset successful")]
                       ELSE [st |-> r.st,
                             svc |-> [svc EXCEPT !.state = "FAILED"],
                             target |-> module_address,
                             out |-> ServiceResult(FALSE, "Reset failed")]

----------------------------------------------------------------------------
(* transport/can_transport.py: CANTransport without an ISO-TP layer (raw    *)
(* CAN, single frames).  t is the transport together with the bus it is on: *)
(* sent are the frames it transmitted, socket the frames queued for its     *)
(* bus.recv, pending the requests the modules have not answered yet,        *)
(* accepted the frame the last receive returned the payload of, if any.     *)

BMW_DIAG_TX_BASE == 1777

BMW_DIAG_RX_BASE == 1536

NoFrame == [arbitration_id |-> -1, data |-> <<>>, is_extended_id |-> FALSE]

NewCanTransport ==
    [target_address |-> 0, sent |-> <<>>, socket |-> <<>>, pending |-> <<>>,
     accepted |-> NoFrame]

set_target_address(t, address) == [t EXCEPT !.target_address = address]

\* CANTransport.send on the raw path: DATA_TOO_LONG is caught by send
send_raw_can(t, data) ==
    IF Len(data) > 7
    THEN [ok |-> FALSE, t |-> t]
    ELSE [ok |-> TRUE,
          t |-> [t EXCEPT !.sent =
                     Append(@, CanMessage(BMW_DIAG_TX_BASE,
                                          Pad(<<Len(data)>> \o data, 8)))]]

\* CANTransport.receive on the raw path: frames are taken off the socket
\* until one is accepted; an empty socket lets the timeout run out
RECURSIVE receive_raw_can(_)
receive_raw_can(t) ==
    IF t.socket = <<>>
    THEN [data |-> None, t |-> [t EXCEPT !.accepted = NoFrame]]
    ELSE LET msg == Head(t.socket)
             t1 == [t EXCEPT !.socket = Tail(@)]
         IN IF msg.arbitration_id = BMW_DIAG_RX_BASE + t.target_address
            THEN IF msg.data = <<>>
                 THEN [data |-> None, t |-> [t1 EXCEPT !.accepted = NoFrame]]
                 ELSE IF msg.data[1] <= 7
                 THEN [data |-> Slice(msg.data, 1, 1 + msg.data[1]),
                       t |-> [t1 EXCEPT !.accepted = msg]]
                 ELSE receive_raw_can(t1)
            ELSE receive_raw_can(t1)

\* the module at address answering ReadDataByIdentifier for did
DidReply(address, did) ==
    CanMessage(BMW_DIAG_RX_BASE + address,
               Pad(<<4, 98>> \o to_bytes2(did) \o <<address>>, 8))

----------------------------------------------------------------------------
(* bmw/services.py: BatteryRegistrationService over the client, and the     *)
(* routine handler of the simulated module it talks to (sim/mock_ecus.py).  *)
(* b is the service with its run: pc is where execute stands, routine what  *)
(* the module answered to the start of the routine, records the profile's   *)
(* service history and before its length when execute was entered, module   *)
(* how the module behaves, registered its _battery_registered and runs the  *)
(* number of calls of execute so far.                                       *)

REGISTER_BATTERY == 768

START_ROUTINE == 1

REQUEST_ROUTINE_RESULTS == 3

BatteryModules == {"acks", "rejects", "silent", "locked"}

NoResult == [returned |-> FALSE, success |-> FALSE, message |-> "none"]

BatteryResult(success, message) ==
    [returned |-> TRUE, success |-> success, message |-> message]

IdleBattery ==
    [pc |-> "idle", state |-> "IDLE", abort_requested |-> FALSE,
     routine |-> "none", result |-> NoResult, records |-> <<>>, before |-> 0,
     capacity |-> 0, type |-> "none", module |-> "acks", registered |-> FALSE,
     runs |-> 0]

BatteryRecord(capacity, type) ==
    [service_name |-> "Battery Registration", module_id |-> "DME",
     success |-> TRUE, capacity |-> capacity, type |-> type]

\* MockECU._handle_session_control of a module that answers at all
battery_module_session(module, request_sent) ==
    IF ~request_sent \/ module = "silent" THEN None
    ELSE IF module = "locked" THEN negative_response(16, 34)
    ELSE handle_session_control(<<EXTENDED_SESSION>>)

\* MockECU._handle_routine_control; succeeds is the configuration's
\* battery_registration_succeeds
handle_routine_control(registered, succeeds, data) ==
    IF Len(data) < 3
    THEN [registered |-> registered, response |-> negative_response(49, 19)]
    ELSE IF from_bytes_big(Slice(data, 1, 3)) # REGISTER_BATTERY
    THEN [registered |-> registered, response |-> negative_response(49, 49)]
    ELSE IF data[1] = START_ROUTINE
    THEN IF succeeds
         THEN [registered |-> TRUE,
               response |-> positive_response(49, <<data[1], data[2], data[3], 0>>)]
         ELSE [registered |-> registered, response |-> negative_response(49, 34)]
    ELSE IF data[1] = REQUEST_ROUTINE_RESULTS
    THEN [registered |-> registered,
          response |-> positive_response(49, <<data[1], data[2], data[3],
                                               IF registered THEN 0 ELSE 1>>)]
    ELSE [registered |-> registered, response |-> negative_response(49, 49)]

\* the module receiving a routine request, if the request reaches it
battery_module_routine(b, request_sent, data) ==
    IF ~request_sent \/ b.module = "silent"
    THEN [registered |-> b.registered, response |-> None]
    ELSE handle_routine_control(b.registered, b.module = "acks", data)

TypeCode(type) ==
    CASE type = "AGM" -> 3
      [] type = "EFB" -> 2
      [] OTHER -> 1

routine_data(b) == to_bytes2(b.capacity) \o <<TypeCode(b.type)>>

fail_result(b, message) ==
    [b EXCEPT !.state = "FAILED", !.pc = "done",
              !.result = BatteryResult(FALSE, message)]

abort_result(b) ==
    [b EXCEPT !.state = "ABORTED", !.pc = "done",
              !.result = BatteryResult(FALSE, "Operation aborted by user")]

\* mutant: the successful run leaves no service record
complete_result_mut(b) ==
    [b EXCEPT !.state = "COMPLETE", !.pc = "done",
              !.result = BatteryResult(TRUE, "Battery registered")]

\* the end of the try block of execute
complete_result(b) ==
    [b EXCEPT !.state = "COMPLETE", !.pc = "done",
              !.result = BatteryResult(TRUE, "Battery registered"),
              !.records = Append(@, BatteryRecord(b.capacity, b.type))]

\* execute up to the first request
battery_execute_enter(b, capacity, type) ==
    [b EXCEPT !.pc = "session", !.state = "EXECUTING",
              !.abort_requested = FALSE, !.routine = "none",
              !.result = NoResult, !.before = Len(b.records),
              !.capacity = capacity, !.type = type, !.runs = @ + 1]

\* step 1 of execute: the extended session
battery_session(b, st) ==
    LET response == battery_module_session(b.module, st.is_open)
        r == diagnostic_session_control(st, EXTENDED_SESSION, response)
    IN IF r.out.status = "error"
       THEN [b |-> fail_result(b, r.out.error_message[1]), st |-> r.st]
       ELSE IF ~r.out.positive
       THEN [b |-> fail_result(b, "Failed to enter extended session"),
             st |-> r.st]
       ELSE [b |-> [b EXCEPT !.pc = "abort_check"], st |-> r.st]

\* the test of _abort_requested before step 2
battery_abort_check(b) ==
    IF b.abort_requested THEN abort_result(b) ELSE [b EXCEPT !.pc = "routine"]

\* step 2 of execute: the routine is started on the module
battery_routine(b, st) ==
    LET data == <<START_ROUTINE>> \o to_bytes2(REGISTER_BATTERY)
                    \o routine_data(b)
        module == battery_module_routine(b, st.is_open, data)
        r == routine_control(st, START_ROUTINE, REGISTER_BATTERY,
                             routine_data(b), module.response)
        b1 == [b EXCEPT !.registered = module.registered]
    IN IF r.out.status = "error"
       THEN [b |-> fail_result(b1, "Battery registration routine not supported"),
             st |-> r.st]
       ELSE [b |-> [b1 EXCEPT !.pc = "result",
                              !.routine = IF r.out.positive THEN "positive"
                                          ELSE "negative"],
             st |-> r.st]

\* the second test of _abort_requested, steps 3 and 4 and the success path
battery_result(b, st) ==
    IF b.abort_requested THEN [b |-> abort_result(b), st |-> st]
    ELSE IF b.routine # "positive"
    THEN [b |-> fail_result(b, "Registration failed"), st |-> st]
    ELSE LET data == <<REQUEST_ROUTINE_RESULTS>> \o to_bytes2(REGISTER_BATTERY)
             module == battery_module_routine(b, st.is_open, data)
             r == routine_control(st, REQUEST_ROUTINE_RESULTS, REGISTER_BATTERY,
                                  <<>>, module.response)
         IN [b |-> complete_result(b), st |-> r.st]

\* BatteryRegistrationService.abort
battery_abort(b) == [b EXCEPT !.abort_requested = TRUE]

----------------------------------------------------------------------------
(* core/connection.py: ConnectionManager.  m is the manager together with   *)
(* the transport it holds.  The transport's kind is "none" while the manager *)
(* has none, "mock" for a MockTransport, "can" for a CANTransport and        *)
(* "given" for an implementation of TransportProtocol handed over through    *)
(* set_transport, whose open and validate answer opens and validates.  last  *)
(* is the connect call the caller has just made, if any: what it returned    *)
(* and what open and validate answered in it.  Text is kept as a tuple of    *)
(* its parts.                                                                *)

NoTransport ==
    [kind |-> "none", is_open |-> FALSE, opens |-> TRUE, validates |-> TRUE]

Transport(kind, opens, validates) ==
    [kind |-> kind, is_open |-> FALSE, opens |-> opens, validates |-> validates]

NoError ==
    [message |-> <<>>, code |-> "", recoverable |-> FALSE, suggestion |-> ""]

ConnectionError(message, code, recoverable, suggestion) ==
    [message |-> message, code |-> code, recoverable |-> recoverable,
     suggestion |-> suggestion]

NoInterface == [name |-> "", interface_type |-> "", bitrate |-> 0]

InterfaceInfo(name, interface_type, bitrate) ==
    [name |-> name, interface_type |-> interface_type, bitrate |-> bitrate]

NoConnect ==
    [called |-> FALSE, returned |-> FALSE, opened |-> FALSE,
     validated |-> FALSE]

Connect(returned, opened, validated) ==
    [called |-> TRUE, returned |-> returned, opened |-> opened,
     validated |-> validated]

\* ConnectionManager(config) with config.simulation_mode off
NewConnectionManager ==
    [state |-> "DISCONNECTED", transport |-> NoTransport,
     current_interface |-> NoInterface, last_error |-> NoError,
     simulation_mode |-> FALSE, last |-> NoConnect]

\* MockTransport.open, CANTransport.open and the open of a given transport.
\* bus_up says whether SocketCAN can open the interface of that name now;
\* CANTransport closes itself first when open, and raises when it cannot open.
transport_open(t, name, bus_up) ==
    CASE t.kind = "mock" ->
           [t |-> [t EXCEPT !.is_open = TRUE], result |-> "true",
            message |-> <<>>]
      [] t.kind = "can" ->
           IF bus_up /\ name # "simulation"
           THEN [t |-> [t EXCEPT !.is_open = TRUE], result |-> "true",
                 message |-> <<>>]
           ELSE [t |-> [t EXCEPT !.is_open = FALSE], result |-> "raises",
                 message |-> <<"TransportError[INTERFACE_NOT_FOUND]: CAN interface",
                               name, "not found. Is SocketCAN configured?">>]
      [] OTHER ->
           [t |-> [t EXCEPT !.is_open = t.opens],
            result |-> IF t.opens THEN "true" ELSE "false", message |-> <<>>]

\* MockTransport.validate, CANTransport.validate (bus_state_ok: the state of
\* the bus can be read) and the validate of a given transport
transport_validate(t, bus_state_ok) ==
    CASE t.kind = "mock" -> t.is_open
      [] t.kind = "can" -> t.is_open /\ bus_state_ok
      [] OTHER -> t.validates

transport_close(t) == [t EXCEPT !.is_open = FALSE]

\* ConnectionManager._set_state; the callbacks are called inside try/except
\* and get no reference to the manager
set_state(m, new_state) == [m EXCEPT !.state = new_state]

\* ConnectionManager._set_error
set_error(m, message, code, recoverable, suggestion) ==
    set_state([m EXCEPT !.last_error =
                   ConnectionError(message, code, recoverable, suggestion)],
              "ERROR")

\* ConnectionManager._create_transport
create_transport(m) ==
    IF m.simulation_mode THEN Transport("mock", TRUE, TRUE)
    ELSE Transport("can", TRUE, TRUE)

\* ConnectionManager.disconnect
disconnect(m) ==
    LET closed == IF m.transport.kind # "none" /\ m.transport.is_open
                  THEN [m EXCEPT !.transport = transport_close(@)]
                  ELSE m
    IN set_state([closed EXCEPT !.current_interface = NoInterface],
                 "DISCONNECTED")

\* ConnectionManager.set_simulation_mode
set_simulation_mode(m, enabled) ==
    LET m1 == IF m.state = "CONNECTED" THEN disconnect(m) ELSE m
    IN [m1 EXCEPT !.simulation_mode = enabled, !.transport = NoTransport]

\* ConnectionManager.set_transport
set_transport(m, transport) == [m EXCEPT !.transport = transport]

\* the interface connect resolves its argument to: nothing, a name or an
\* InterfaceInfo
resolve_interface(m, interface) ==
    IF \/ interface.given = "none"
       \/ interface.given = "name" /\ interface.name = "simulation"
       \/ m.simulation_mode
    THEN [info |-> InterfaceInfo("simulation", "simulation", 0),
          simulation_mode |-> TRUE]
    ELSE IF interface.given = "info"
    THEN [info |-> interface.info, simulation_mode |-> m.simulation_mode]
    ELSE [info |-> InterfaceInfo(interface.name, "socketcan", 500000),
          simulation_mode |-> m.simulation_mode]

\* the validation step of connect and what follows it
connect_validate(m, interface_info, bus_state_ok) ==
    LET m1 == set_state([m EXCEPT !.current_interface = interface_info],
                        "VALIDATING")
        valid == transport_validate(m1.transport, bus_state_ok)
    IN IF ~valid /\ interface_info.interface_type # "simulation"
       THEN [set_error([m1 EXCEPT !.transport = transport_close(@)],
                       <<"CAN bus validation failed">>, "VALIDATION_FAILED",
                       TRUE, "Check CAN adapter and vehicle connection")
               EXCEPT !.last = Connect(FALSE, TRUE, FALSE)]
       ELSE [set_state(m1, "CONNECTED")
               EXCEPT !.last = Connect(TRUE, TRUE, valid)]

\* ConnectionManager.connect
connect(m, interface, bus_up, bus_state_ok) ==
    LET m1 == IF m.state = "CONNECTED" THEN disconnect(m) ELSE m
        m2 == set_state(m1, "CONNECTING")
        resolved == resolve_interface(m2, interface)
        interface_info == resolved.info
        m3 == [m2 EXCEPT !.simulation_mode = resolved.simulation_mode]
        m4 == IF m3.transport.kind = "none"
              THEN [m3 EXCEPT !.transport = create_transport(m3)]
              ELSE m3
        simulated == interface_info.interface_type = "simulation"
        o == transport_open(m4.transport,
                            IF simulated THEN "simulation"
                            ELSE interface_info.name, bus_up)
        m5 == [m4 EXCEPT !.transport = o.t]
    IN CASE o.result = "raises" ->
              [set_error(m5, o.message, "CONNECTION_EXCEPTION", TRUE,
                         "Check CAN adapter installation and permissions")
                 EXCEPT !.last = Connect(FALSE, FALSE, FALSE)]
         [] o.result = "false" /\ simulated ->
              [set_error(m5, <<"Failed to initialize simulation">>,
                         "SIM_INIT_FAILED", TRUE, "Restart the application")
                 EXCEPT !.last = Connect(FALSE, FALSE, FALSE)]
         [] o.result = "false" /\ ~simulated ->
              [set_error(m5, <<"Failed to open CAN interface",
                               interface_info.name>>,
                         "CAN_OPEN_FAILED", TRUE,
                         "Check if interface is up: sudo ip link set can0 up type can bitrate 500000")
                 EXCEPT !.last = Connect(FALSE, FALSE, FALSE)]
         [] OTHER -> connect_validate(m5, interface_info, bus_state_ok)

----------------------------------------------------------------------------
(* Inputs the calls are exercised with *)

ServiceIds == {16, 39, 46, 52, 62}

CheckServiceIds == {16, 17, 20, 25, 34, 39, 46, 49, 52, 53, 54, 55, 56, 62}

WriteDids == BLOCKED_WRITE_DIDS \cup {4660, 61844}

ClientWriteDids == {61840, 9472, 4660}

ClientResetTypes == {1, 3, 4}

RoutineIds == BLOCKED_ROUTINES \cup {515, 768, 4660}

ClientRoutineIds == {257, 515, 65280}

ResetTypes == {0, 1, 2, 3, 4, 96}

SessionTypes == {1, 2, 3}

CbsTypes == {1, 2, 6}

OperationNames ==
  { <<"i","m","m","o","b","i","l","i","z","e","r","_","b","y","p","a","s","s">>,
    <<"e","w","s","_","r","e","s","e","t">>,
    <<"k","e","y","_","p","r","o","g","r","a","m","m","i","n","g">>,
    <<"v","i","n","_","w","r","i","t","e">>,
    <<"o","d","o","m","e","t","e","r","_","r","e","s","e","t">>,
    <<"m","i","l","e","a","g","e","_","c","o","r","r","e","c","t","i","o","n">>,
    <<"f","l","a","s","h","_","e","c","u">>,
    <<"e","e","p","r","o","m","_","d","u","m","p">>,
    <<"s","e","c","u","r","i","t","y","_","u","n","l","o","c","k">>,
    <<"t","h","e","f","t","_","m","o","d","e">>,
    <<"r","e","a","d","_","d","t","c">>,
    <<"c","l","e","a","r","_","d","t","c">>,
    <<"b","a","t","t","e","r","y","_","r","e","g","i","s","t","r","a","t","i","o","n">>,
    <<"r","e","s","e","t","_","a","d","a","p","t","a","t","i","o","n">>,
    <<"r","e","a","d","_","l","i","v","e","_","d","a","t","a">>,
    <<"m","o","d","u","l","e","_","s","c","a","n">>,
    <<"E","W","S"," ","R","e","s","e","t">>,
    <<"K","e","y","-","L","e","a","r","n">>,
    <<"F","l","a","s","h"," ","E","C","U">> }

\* what transport.receive may return for a request with this service id
Responses(service_id) ==
    {None, <<>>, <<service_id + 64, 1>>, <<127, service_id, 34>>,
     <<127, service_id>>, <<127, service_id, 153>>, <<service_id + 65, 1>>}

ShortResponses(service_id) ==
    {None, <<service_id + 64, 1>>, <<127, service_id, 34>>}

\* streams of frames answering one single-frame request of the worker
SingleFrame(payload) == Pad(<<Len(payload)>> \o payload, 8)

WorkerReplies(service_id, echo) ==
    {<<>>, <<SingleFrame(<<service_id + 64, echo>>)>>,
     <<SingleFrame(<<127, service_id, 34>>)>>}

SeedReplies(level) ==
    {<<>>, <<SingleFrame(<<103, level, 0, 0>>)>>,
     <<SingleFrame(<<103, level, 18, 52>>)>>,
     <<SingleFrame(<<127, 39, 51>>)>>}

NoOutcome ==
    [status |-> "none", code |-> 0, service_id |-> 0, data |-> <<>>,
     positive |-> FALSE, error_message |-> NoMessage, raw_response |-> None]

Call(op, args, check_safety, out) ==
    [op |-> op, args |-> args, check_safety |-> check_safety, out |-> out]

CheckOutcome(ok) ==
    [status |-> IF ok THEN "allowed" ELSE "rejected", code |-> 0,
     service_id |-> 0, data |-> <<>>, positive |-> ok,
     error_message |-> NoMessage, raw_response |-> None]

----------------------------------------------------------------------------
(* Actions: the safety engine called directly *)

CheckDone(c, op, args) ==
    /\ ncalls < MaxCalls
    /\ violations' = c.log
    /\ call' = Call(op, args, TRUE, CheckOutcome(c.ok))
    /\ ncalls' = ncalls + 1
    /\ hook_calls' = notify_recorded(hooks, c.log, Len(violations) + 1, hook_calls)
    /\ UNCHANGED <<trace, session_type, is_open, tx_buffer, send_calls, bus_tx>>
    /\ UNCHANGED <<scanVars, isotpVars, hooks, snapshot, appVars>>

CheckService ==
    \E service_id \in CheckServiceIds :
        CheckDone(check_service(violations, service_id), "check_service",
                  <<service_id>>)

CheckWriteDid ==
    \E did \in WriteDids :
        CheckDone(check_write_did(violations, did), "check_write_did", <<did>>)

CheckRoutine ==
    \E routine_id \in RoutineIds :
        CheckDone(check_routine(violations, routine_id), "check_routine",
                  <<routine_id>>)

CheckEcuReset ==
    \E reset_type \in ResetTypes :
        CheckDone(check_ecu_reset(violations, reset_type), "check_ecu_reset",
                  <<reset_type>>)

CheckOperation ==
    \E operation \in OperationNames :
        CheckDone(check_operation(violations, operation), "check_operation",
                  operation)

\* SafetyManager.add_violation_hook, by the audit collaborator
AddViolationHook ==
    /\ Len(hooks) < MaxHooks
    /\ \E hook \in Hooks : hooks' = add_violation_hook(hooks, hook)
    /\ UNCHANGED <<udsVars, scanVars, isotpVars, hook_calls, snapshot, appVars>>

\* the checks of the instance the application constructed
ManagerCheckService ==
    \E service_id \in CheckServiceIds :
        CheckDone(self_check_service(manager, violations, service_id),
                  "check_service", <<service_id>>)

ManagerCheckWriteDid ==
    \E did \in WriteDids :
        CheckDone(self_check_write_did(manager, violations, did),
                  "check_write_did", <<did>>)

ManagerCheckRoutine ==
    \E routine_id \in RoutineIds :
        CheckDone(self_check_routine(manager, violations, routine_id),
                  "check_routine", <<routine_id>>)

\* SafetyManager.get_violations, the caller keeping the list it is handed
GetViolations ==
    /\ snapshot' = get_violations(violations)
    /\ UNCHANGED <<udsVars, scanVars, isotpVars, hooks, hook_calls, appVars>>

\* a violation record the engine never made
ForeignViolation ==
    [category |-> "THEFT_ADJACENT", kind |-> "Operation", id |-> 0,
     blocked |-> FALSE]

Reversed(items) == [k \in 1..Len(items) |-> items[Len(items) + 1 - k]]

\* what list.clear, list.pop, list.reverse and list.append make of a list
ListMutations(items) ==
    {<<>>, SubSeq(items, 1, Len(items) - 1), Reversed(items)}
        \cup (IF Len(items) <= MaxCalls THEN {Append(items, ForeignViolation)}
              ELSE {})

\* the caller mutates the list it was handed; a list shared with the engine
\* is the engine's log
MutateSnapshot ==
    /\ snapshot.taken
    /\ \E items \in ListMutations(snapshot.items) :
          /\ snapshot' = [snapshot EXCEPT !.items = items]
          /\ violations' = IF snapshot.shared THEN items ELSE violations
    /\ UNCHANGED <<trace, session_type, is_open, tx_buffer, send_calls, bus_tx,
                   call, ncalls>>
    /\ UNCHANGED <<scanVars, isotpVars, hooks, hook_calls, appVars>>

----------------------------------------------------------------------------
(* Actions: the UDS client and the transport under it *)

ClientDone(r, op, args, check_safety) ==
    /\ ncalls < MaxCalls
    /\ violations' = r.st.violations
    /\ trace' = r.st.trace
    /\ session_type' = r.st.session_type
    /\ tx_buffer' = r.st.tx_buffer
    /\ send_calls' = r.st.send_calls
    /\ call' = Call(op, args, check_safety, r.out)
    /\ ncalls' = ncalls + 1
    /\ hook_calls' = notify_recorded(hooks, r.st.violations, Len(violations) + 1,
                                     hook_calls)
    /\ UNCHANGED <<is_open, bus_tx>>
    /\ UNCHANGED <<scanVars, isotpVars, hooks, snapshot, appVars>>

SendRequest ==
    \E service_id \in ServiceIds, check_safety \in BOOLEAN :
        \E response \in Responses(service_id) :
            ClientDone(send_request(ClientState, service_id, <<1>>, check_safety,
                                    response),
                       "send_request", <<service_id, 1>>, check_safety)

DiagnosticSessionControl ==
    \E session \in SessionTypes :
        \E response \in ShortResponses(16) :
            ClientDone(diagnostic_session_control(ClientState, session, response),
                       "diagnostic_session_control", <<session>>, TRUE)

EcuReset ==
    \E reset_type \in ClientResetTypes :
        \E response \in ShortResponses(17) :
            ClientDone(ecu_reset(ClientState, reset_type, response),
                       "ecu_reset", <<reset_type>>, TRUE)

WriteDataById ==
    \E data_id \in ClientWriteDids :
        \E response \in ShortResponses(46) :
            ClientDone(write_data_by_id(ClientState, data_id, <<1>>, response),
                       "write_data_by_id", <<data_id, 1>>, TRUE)

RoutineControl ==
    \E routine_id \in ClientRoutineIds :
        \E response \in ShortResponses(49) :
            ClientDone(routine_control(ClientState, 1, routine_id, <<>>, response),
                       "routine_control", <<1, routine_id>>, TRUE)

\* ECUResetService.execute(module_id, module_address, reset_type)
ResetServiceExecute ==
    \E module_address \in Addresses, reset_type \in ResetTypes :
        \E session_response \in ShortResponses(16),
           reset_response \in ShortResponses(17) :
            LET r == ecu_reset_service_execute(ClientState, service,
                                               target_address, module_address,
                                               reset_type, session_response,
                                               reset_response)
            IN /\ ncalls < MaxCalls
               /\ violations' = r.st.violations
               /\ trace' = r.st.trace
               /\ session_type' = r.st.session_type
               /\ tx_buffer' = r.st.tx_buffer
               /\ send_calls' = r.st.send_calls
               /\ target_address' = r.target
               /\ service' = r.svc
               /\ call' = Call("ecu_reset_service",
                               <<module_address, reset_type>>, TRUE, r.out)
               /\ ncalls' = ncalls + 1
               /\ hook_calls' = notify_recorded(hooks, r.st.violations,
                                                Len(violations) + 1, hook_calls)
               /\ UNCHANGED <<is_open, bus_tx, scan_state, abort_requested,
                              scans, profile, ecu, isotpVars, hooks, snapshot,
                              manager, workerVars, mockVars, linkVars>>

\* MockECUManager.set_target; 0 is the address no ECU answers at
MockSetTarget ==
    /\ \E address \in MockAddresses \cup {0} : current_target' = address
    /\ UNCHANGED <<udsVars, scanVars, isotpVars, safetyVars, manager,
                   workerVars, dtc_ref, dtc_lists, service, linkVars>>

MockRequests == {<<20, 255, 255, 255>>, <<25, 1, 255>>, <<133, 2>>}

\* MockECUManager.process_request of a clear, a DTC count or a request of
\* an unsupported service
MockProcessRequest ==
    \E request \in MockRequests :
        LET r == manager_process_request(dtc_ref, dtc_lists, current_target,
                                         request)
        IN /\ ncalls < MaxCalls
           /\ dtc_lists' = r.lists
           /\ call' = Call("process_request", <<current_target, request>>, TRUE,
                           [NoOutcome EXCEPT !.status = "reply",
                                             !.raw_response = r.response])
           /\ ncalls' = ncalls + 1
           /\ UNCHANGED <<violations, trace, session_type, is_open, tx_buffer,
                          send_calls, bus_tx, scanVars, isotpVars, safetyVars,
                          manager, workerVars, dtc_ref, current_target, service, linkVars>>

MockDTCsToAdd == {[code |-> 12648704, status |-> 4]}

MockAddDtc ==
    \E address \in MockAddresses, dtc \in MockDTCsToAdd :
        /\ Len(DtcsOf(dtc_ref, dtc_lists, address)) < MaxDtcs
        /\ dtc_lists' = add_dtc(dtc_ref, dtc_lists, address, dtc)
        /\ UNCHANGED <<udsVars, scanVars, isotpVars, safetyVars, manager,
                       workerVars, dtc_ref, current_target, service, linkVars>>

MockClearAllDtcs ==
    /\ dtc_lists' = clear_all_dtcs(dtc_ref, dtc_lists)
    /\ UNCHANGED <<udsVars, scanVars, isotpVars, safetyVars, manager,
                   workerVars, dtc_ref, current_target, service, linkVars>>

\* a CANWorker is constructed and started in place of one that has returned
WorkerStart ==
    \E w \in Workers, operation \in WorkerOperations :
        /\ workers[w].pc \in {"idle", "done", "refused"}
        /\ workers' = [workers EXCEPT ![w] = CANWorker(operation)]
        /\ UNCHANGED <<udsVars, scanVars, isotpVars, safetyVars, manager, mutex,
                       mockVars, service, linkVars>>

\* CANWorker.run up to the try block
WorkerRun ==
    \E w \in Workers :
        /\ workers[w].pc = "started"
        /\ LET r == run_guard(mutex, workers[w], w)
           IN /\ mutex' = r.mutex
              /\ workers' = [workers EXCEPT ![w] = r.worker]
        /\ UNCHANGED <<udsVars, scanVars, isotpVars, safetyVars, manager,
                       mockVars, service, linkVars>>

\* the try block of CANWorker.run, to the emission of the result
WorkerOperation ==
    \E w \in Workers, raised \in BOOLEAN :
        /\ workers[w].pc = "locked"
        /\ workers' = [workers EXCEPT ![w] = run_operation(@, raised)]
        /\ UNCHANGED <<udsVars, scanVars, isotpVars, safetyVars, manager, mutex,
                       mockVars, service, linkVars>>

\* the finally block of CANWorker.run
WorkerFinally ==
    \E w \in Workers :
        /\ workers[w].pc = "finished"
        /\ mutex' = unlock([mutex EXCEPT !.is_running = FALSE])
        /\ workers' = [workers EXCEPT ![w].pc = "done"]
        /\ UNCHANGED <<udsVars, scanVars, isotpVars, safetyVars, manager,
                       mockVars, service, linkVars>>

\* what a target may answer the VIN read: nothing, the mock ECU's VIN, a
\* VIN of ten characters, a negative response
VinResponses ==
    {None, handle_read_data(96, to_bytes2(VIN_DID)),
     positive_response(34, to_bytes2(VIN_DID) \o Slice(VIN_PREFIX, 0, 10)),
     negative_response(34, 49)}

ReadVin ==
    \E response \in VinResponses :
        ClientDone(read_vin(ClientState, response), "read_vin",
                   <<is_open, response>>, TRUE)

\* tester_present towards a mock ECU or towards a target that stays silent
TesterPresent ==
    \E suppress_response \in BOOLEAN, connected \in BOOLEAN :
        LET sub_function == IF suppress_response THEN 128 ELSE 0
            response == IF connected
                        THEN process_request(96, "faults0", <<62, sub_function>>)
                        ELSE None
        IN ClientDone(tester_present(ClientState, suppress_response, response),
                      "tester_present", <<sub_function, connected>>, TRUE)

\* MockTransport.open / close
TransportOpen ==
    /\ ~is_open
    /\ is_open' = TRUE
    /\ UNCHANGED <<violations, trace, session_type, tx_buffer, send_calls,
                   bus_tx, call, ncalls>>
    /\ UNCHANGED <<scanVars, isotpVars, safetyVars, appVars>>

TransportClose ==
    /\ is_open
    /\ is_open' = FALSE
    /\ tx_buffer' = <<>>
    /\ UNCHANGED <<violations, trace, session_type, send_calls, bus_tx, call,
                   ncalls>>
    /\ UNCHANGED <<scanVars, isotpVars, safetyVars, appVars>>

----------------------------------------------------------------------------
(* Actions: the application's worker *)

WorkerDone(r, op, args) ==
    /\ ncalls < MaxCalls
    /\ bus_tx' = r.bus
    /\ call' = Call(op, args, FALSE, CheckOutcome(r.ok))
    /\ ncalls' = ncalls + 1
    /\ UNCHANGED <<violations, trace, session_type, is_open, tx_buffer,
                   send_calls>>
    /\ UNCHANGED <<scanVars, isotpVars, safetyVars, appVars>>

WorkerSecurityAccess ==
    \E level \in {SECURITY_LEVEL_01, SECURITY_LEVEL_03} :
        \E rx1 \in SeedReplies(level), rx2 \in WorkerReplies(39, level + 1) :
            WorkerDone(security_access(bus_tx, DME_TX, level, rx1, rx2),
                       "_security_access", <<level>>)

WorkerServiceReset ==
    \E cbs_type \in CbsTypes :
        \E rx1 \in WorkerReplies(16, 3), rx2 \in WorkerReplies(49, 1) :
            WorkerDone(service_reset(bus_tx, cbs_type, rx1, rx2),
                       "_service_reset", <<cbs_type>>)

----------------------------------------------------------------------------
(* Actions: the client over the CAN transport, and the bus around it *)

CanDids == {VIN_DID, 61825}

CanRest ==
    <<scan_state, abort_requested, scans, profile, ecu, isotpVars, manager,
      workerVars, mockVars, service, battery, connection>>

\* UDSClient.set_target with a CANTransport under it
CanSetTarget ==
    \E address \in Addresses :
        /\ target_address' = address
        /\ can' = set_target_address(can, address)
        /\ UNCHANGED <<udsVars, safetyVars, CanRest>>

\* UDSClient.read_data_by_id: the request goes out, the module at the target
\* address (if there is one) answers within the timeout or not, and receive
\* takes what the socket holds
CanSendRequest ==
    /\ is_open
    /\ ncalls < MaxCalls
    /\ \E did \in CanDids, answered \in BOOLEAN :
        LET asked == [address |-> can.target_address, did |-> did]
            tx == send_raw_can(can, <<34>> \o to_bytes2(did)).t
            bus == IF asked.address \notin Addresses
                   THEN tx
                   ELSE IF answered
                   THEN [tx EXCEPT !.socket =
                             Append(@, DidReply(asked.address, did))]
                   ELSE [tx EXCEPT !.pending = Append(@, asked)]
            rcv == receive_raw_can(bus)
            r == read_data_by_id(ClientState, did, rcv.data)
        IN /\ can' = rcv.t
           /\ violations' = r.st.violations
           /\ trace' = r.st.trace
           /\ session_type' = r.st.session_type
           /\ tx_buffer' = r.st.tx_buffer
           /\ send_calls' = r.st.send_calls
           /\ call' = Call("can_read_data_by_id", <<did, asked.address>>, TRUE,
                           r.out)
           /\ ncalls' = ncalls + 1
           /\ hook_calls' = notify_recorded(hooks, r.st.violations,
                                            Len(violations) + 1, hook_calls)
           /\ UNCHANGED <<is_open, bus_tx, target_address, hooks, snapshot,
                          CanRest>>

\* a module answers a request after the client stopped waiting for it
CanLateReply ==
    /\ can.pending # <<>>
    /\ can' = [can EXCEPT !.pending = Tail(@),
                          !.socket = Append(@, DidReply(Head(can.pending).address,
                                                        Head(can.pending).did))]
    /\ UNCHANGED <<udsVars, target_address, safetyVars, CanRest>>

\* a frame of another module reaches the socket
CanForeignFrame ==
    /\ Len(can.socket) < MaxFrames
    /\ \E address \in Addresses \ {can.target_address} :
        can' = [can EXCEPT !.socket = Append(@, DidReply(address, VIN_DID))]
    /\ UNCHANGED <<udsVars, target_address, safetyVars, CanRest>>

----------------------------------------------------------------------------
(* Actions: a battery registration run, step by step, and the user's abort *)

BatteryRest ==
    <<is_open, bus_tx, call, ncalls, scanVars, isotpVars, hooks, snapshot,
      manager, workerVars, mockVars, service, can, connection>>

BatteryStep(r) ==
    /\ battery' = r.b
    /\ violations' = r.st.violations
    /\ trace' = r.st.trace
    /\ session_type' = r.st.session_type
    /\ tx_buffer' = r.st.tx_buffer
    /\ send_calls' = r.st.send_calls
    /\ hook_calls' = notify_recorded(hooks, r.st.violations, Len(violations) + 1,
                                     hook_calls)
    /\ UNCHANGED BatteryRest

BatteryTypes == {"AGM", "EFB"}

\* execute(battery_capacity_ah, battery_type) against a module of some kind
\* that has no battery registered yet
BatteryExecute ==
    /\ battery.pc \in {"idle", "done"}
    /\ battery.runs < MaxCalls
    /\ \E type \in BatteryTypes, module \in BatteryModules :
        BatteryStep([b |-> battery_execute_enter(
                               [battery EXCEPT !.module = module,
                                               !.registered = FALSE], 80, type),
                     st |-> ClientState])

BatterySession ==
    /\ battery.pc = "session"
    /\ BatteryStep(battery_session(battery, ClientState))

BatteryAbortCheck ==
    /\ battery.pc = "abort_check"
    /\ BatteryStep([b |-> battery_abort_check(battery), st |-> ClientState])

BatteryRoutine ==
    /\ battery.pc = "routine"
    /\ BatteryStep(battery_routine(battery, ClientState))

BatteryResultStep ==
    /\ battery.pc = "result"
    /\ BatteryStep(battery_result(battery, ClientState))

\* abort() called from the user interface while execute runs
BatteryAbort ==
    /\ battery.pc \in {"session", "abort_check", "routine", "result"}
    /\ ~battery.abort_requested
    /\ BatteryStep([b |-> battery_abort(battery), st |-> ClientState])

----------------------------------------------------------------------------
(* Actions: the connection manager, called from the connect page *)

ConnectionRest ==
    <<is_open, bus_tx, call, ncalls, scanVars, isotpVars, hooks, snapshot,
      manager, workerVars, mockVars, service, can, battery>>

\* what connect is called with: nothing, a name, or one of the InterfaceInfo
\* records discover_interfaces returns
ConnectInterfaces ==
    {[given |-> "none", name |-> "", info |-> NoInterface],
     [given |-> "name", name |-> "simulation", info |-> NoInterface],
     [given |-> "name", name |-> "can0", info |-> NoInterface],
     [given |-> "info", name |-> "",
      info |-> InterfaceInfo("simulation", "simulation", 0)],
     [given |-> "info", name |-> "",
      info |-> InterfaceInfo("vcan0", "virtual", 500000)]}

ConnectionStep(m) ==
    /\ connection' = m
    /\ UNCHANGED <<udsVars, target_address, safetyVars, ConnectionRest>>

ConnectionConnect ==
    \E interface \in ConnectInterfaces, bus_up \in BOOLEAN,
       bus_state_ok \in BOOLEAN :
        ConnectionStep(connect(connection, interface, bus_up, bus_state_ok))

ConnectionDisconnect ==
    ConnectionStep([disconnect(connection) EXCEPT !.last = NoConnect])

ConnectionSetSimulationMode ==
    \E enabled \in BOOLEAN :
        ConnectionStep([set_simulation_mode(connection, enabled)
                           EXCEPT !.last = NoConnect])

\* a transport of the caller's own, or a MockTransport, handed over
ConnectionSetTransport ==
    \E kind \in {"mock", "given"}, opens \in BOOLEAN, validates \in BOOLEAN :
        /\ kind = "mock" => opens /\ validates
        /\ ConnectionStep([set_transport(connection,
                                         Transport(kind, opens, validates))
                              EXCEPT !.last = NoConnect])

----------------------------------------------------------------------------
(* Actions: the module scanner.  Each caller runs scan_all on the one       *)
(* scanner; a step is the stretch of scan_all between two points where      *)
(* another thread can act on the scanner: entry, the head of the loop, the  *)
(* probe of one module with its bookkeeping, and the exit.                  *)

ModuleLists == {NoModules, Listed(<<registry[1]>>)}

\* lists a caller may pass besides: the empty one, one in another order
ListedModules ==
    {Listed(<<>>), Listed(<<registry[1]>>), Listed(<<registry[2], registry[1]>>)}

InProgress(c) == scans[c].pc \in {"loop", "probe", "finish"}

\* scan_all(modules), up to the loop; `modules or get_all_modules()` takes
\* the registry's list for None and for an empty list alike
scan_all_enter(c, modules) ==
    /\ scans[c].pc = "idle"
    /\ LET modules_to_scan == IF modules.given /\ modules.list # <<>>
                              THEN modules.list
                              ELSE get_all_modules
       IN scans' = [scans EXCEPT ![c] =
              [IdleScan EXCEPT !.pc = "loop",
                               !.modules = modules,
                               !.modules_to_scan = modules_to_scan,
                               !.result.total_modules = Len(modules_to_scan)]]
    /\ scan_state' = "scanning"
    /\ abort_requested' = FALSE
    /\ UNCHANGED <<udsVars, target_address, profile, ecu>>
    /\ UNCHANGED <<isotpVars, safetyVars, appVars>>

\* scan_all() and scan_all([module])
ScanAll(c) == \E modules \in ModuleLists : scan_all_enter(c, modules)

\* scan_all(modules) with a list the caller built
ScanAllListed(c) == \E modules \in ListedModules : scan_all_enter(c, modules)

\* the head of the loop: exhaustion, the abort check, the progress callback
ScanLoopHead(c) ==
    /\ scans[c].pc = "loop"
    /\ LET s == scans[c]
       IN scans' = [scans EXCEPT ![c] =
              IF s.i >= Len(s.modules_to_scan)
              THEN [s EXCEPT !.pc = "finish"]
              ELSE IF abort_requested
              THEN [s EXCEPT !.pc = "finish", !.result.aborted = TRUE]
              ELSE [s EXCEPT !.pc = "probe",
                             !.progress = Append(@, <<s.i, s.result.total_modules,
                                 s.modules_to_scan[s.i + 1].module_id>>)]]
    /\ UNCHANGED <<udsVars, scan_state, abort_requested, target_address,
                   profile, ecu>>
    /\ UNCHANGED <<isotpVars, safetyVars, appVars>>

\* _scan_module on the current module, then the counters and the profile
ScanProbe(c) ==
    /\ scans[c].pc = "probe"
    /\ LET s == scans[c]
           module_def == s.modules_to_scan[s.i + 1]
           r == scan_module(ClientState, module_def)
       IN /\ target_address' = module_def.address
          /\ violations' = r.st.violations
          /\ hook_calls' = notify_recorded(hooks, r.st.violations,
                                           Len(violations) + 1, hook_calls)
          /\ trace' = r.st.trace
          /\ session_type' = r.st.session_type
          /\ tx_buffer' = r.st.tx_buffer
          /\ send_calls' = r.st.send_calls
          /\ scans' = [scans EXCEPT ![c] =
                 [s EXCEPT !.pc = "loop", !.i = @ + 1,
                           !.result = add_module_result(@, r.result)]]
          /\ profile' = [profile EXCEPT !.modules =
                 (r.result.module_id :> ModuleStatus(r.result)) @@ @]
    /\ UNCHANGED <<is_open, bus_tx, call, ncalls, scan_state, abort_requested, ecu>>
    /\ UNCHANGED <<isotpVars, hooks, snapshot, appVars>>

\* mutant: the final state is COMPLETE whatever the result says
ScanFinish_mut(c) ==
    /\ scans[c].pc = "finish"
    /\ LET s == scans[c]
       IN /\ profile' = [profile EXCEPT !.scan_complete = ~s.result.aborted]
          /\ scan_state' = "complete"
          /\ scans' = [scans EXCEPT ![c] =
                 [s EXCEPT !.pc = "done", !.complete = Append(@, s.result)]]
    /\ UNCHANGED <<udsVars, abort_requested, target_address, ecu>>
    /\ UNCHANGED <<isotpVars, safetyVars, appVars>>

\* the exit of scan_all: profile, final state, the completion callback
ScanFinish(c) ==
    /\ scans[c].pc = "finish"
    /\ LET s == scans[c]
       IN /\ profile' = [profile EXCEPT !.scan_complete = ~s.result.aborted]
          /\ scan_state' = IF s.result.aborted THEN "aborted" ELSE "complete"
          /\ scans' = [scans EXCEPT ![c] =
                 [s EXCEPT !.pc = "done", !.complete = Append(@, s.result)]]
    /\ UNCHANGED <<udsVars, abort_requested, target_address, ecu>>
    /\ UNCHANGED <<isotpVars, safetyVars, appVars>>

\* ModuleScanner.abort, from the page's abort button
ScanAbort ==
    /\ \E c \in Callers : InProgress(c)
    /\ IF scan_state = "scanning"
       THEN /\ abort_requested' = TRUE
            /\ scans' = [c \in Callers |->
                   IF scans[c].pc = "probe"
                      \/ (scans[c].pc = "loop"
                          /\ scans[c].i < Len(scans[c].modules_to_scan))
                   THEN [scans[c] EXCEPT !.abort_seen = TRUE]
                   ELSE scans[c]]
       ELSE UNCHANGED <<abort_requested, scans>>
    /\ UNCHANGED <<udsVars, scan_state, target_address, profile, ecu>>
    /\ UNCHANGED <<isotpVars, safetyVars, appVars>>

----------------------------------------------------------------------------
(* Actions: one ISO-TP reception over a stream of received frames *)

NotDelivered == [done |-> FALSE, payload |-> None]

FirstFrame(length, data) ==
    <<16 + ((length \div 256) % 16), length % 256>> \o data

ConsecutiveFrame(seq) ==
    <<32 + seq>> \o [j \in 1..7 |-> 16 * seq + j]

NegativeFrame == <<3, 127, 34, 17, 0, 0, 0, 0>>

FlowControlFrame == <<FC_CONTINUE, 0, 0, 0, 0, 0, 0, 0>>

\* what the first _recv_frame call may return
FirstFrames ==
    {None, SingleFrame(<<98, 241, 144>>),
     FirstFrame(10, <<98, 241, 144, 87, 66, 83>>),
     FirstFrame(20, <<98, 241, 144, 87, 66, 83>>)}

\* what a later _recv_frame call may return
LaterFrames ==
    {None, ConsecutiveFrame(1), ConsecutiveFrame(2), ConsecutiveFrame(3),
     NegativeFrame, FlowControlFrame}

RxStreams ==
    {<<f>> \o t : f \in FirstFrames,
                  t \in UNION {[1..n -> LaterFrames] : n \in 0..MaxFrames}}

\* IsoTpHandler._receive_isotp of a handler with the default parameters
IsoTpReceive ==
    /\ ~delivered.done
    /\ LET r == receive_isotp(bus_tx, DME_TX, 0, 0, rx_frames, 1)
       IN /\ delivered' = [done |-> TRUE, payload |-> r.payload]
          /\ bus_tx' = r.bus
    /\ UNCHANGED <<violations, trace, session_type, is_open, tx_buffer,
                   send_calls, call, ncalls, rx_frames>>
    /\ UNCHANGED <<tx_data, fc_frames, exchanged>>
    /\ UNCHANGED <<scanVars, safetyVars, appVars>>

----------------------------------------------------------------------------
(* Actions: one ISO-TP send_receive, and a peer handler reassembling what   *)
(* it put on the bus                                                        *)

NotSent == [done |-> FALSE, response |-> None]

\* response arbitration id of the DME (BMW_ECUS)
DME_RX == 2024

\* buffer lengths that make the sequence number wrap and the length field
\* use its high nibble
LongLengths == {118, 300}

BufferLengths == (0..MaxBufLen) \cup LongLengths

\* contents: a ramp, all zero (as the padding), all 0x7F (as a negative reply)
Buffers ==
    {[i \in 1..n |-> i % 256] : n \in BufferLengths}
        \cup {[i \in 1..n |-> 0] : n \in 0..MaxBufLen}
        \cup {[i \in 1..n |-> 127] : n \in 0..MaxBufLen}

BlockSizes == {0, 1, 2}

\* a Flow Control frame of the peer: flag, block size, ST_min
PeerFlowControl(flag, block_size) == <<flag, block_size, 0, 0, 0, 0, 0, 0>>

\* Consecutive Frames a buffer needs
ConsecutiveFramesOf(data) ==
    IF Len(data) <= 7 THEN 0 ELSE (Len(data) - 6 + 6) \div 7

\* Flow Control frames a cooperative peer supplies for a buffer
FlowControlsFor(data, block_size) ==
    IF Len(data) <= 7 THEN 0
    ELSE IF block_size = 0 THEN 1
    ELSE 1 + ((ConsecutiveFramesOf(data) - 1) \div block_size)

CooperativeStream(data, block_size) ==
    [i \in 1..FlowControlsFor(data, block_size) |->
        PeerFlowControl(FC_CONTINUE, block_size)]

\* the cooperative stream, the same cut short (a Flow Control frame that
\* never arrives), and the same with a frame that is no Flow Control
FcStreams(data) ==
    UNION {LET full == CooperativeStream(data, bs)
           IN {SubSeq(full, 1, j) : j \in 0..Len(full)}
                \cup {[full EXCEPT ![j] = ConsecutiveFrame(1)] : j \in 1..Len(full)}
           : bs \in BlockSizes}

FC_WAIT == 49

FC_OVERFLOW == 50

\* the cooperative stream, and the same with one frame's status changed to
\* Wait or to Overflow
FcStatusStreams(data) ==
    UNION {LET full == CooperativeStream(data, bs)
           IN {full} \cup {[full EXCEPT ![j] = PeerFlowControl(flag, bs)] :
                               j \in 1..Len(full), flag \in {FC_WAIT, FC_OVERFLOW}}
           : bs \in BlockSizes}

\* IsoTpHandler.send_receive of a handler with the default parameters
IsoTpSendReceive ==
    /\ ~exchanged.done
    /\ LET r == send_receive(bus_tx, DME_TX, tx_data, fc_frames)
       IN /\ exchanged' = [done |-> TRUE, response |-> r.payload]
          /\ bus_tx' = r.bus
    /\ UNCHANGED <<violations, trace, session_type, is_open, tx_buffer,
                   send_calls, call, ncalls>>
    /\ UNCHANGED <<rx_frames, delivered, tx_data, fc_frames>>
    /\ UNCHANGED <<scanVars, safetyVars, appVars>>

\* the frames the sender put on the bus
SenderFrames == SelectSeq(bus_tx, LAMBDA msg : msg.arbitration_id = DME_TX)

\* the peer's handler receives the frames the sender emitted
IsoTpPeerReceive ==
    /\ exchanged.done
    /\ ~delivered.done
    /\ LET rx == [i \in 1..Len(SenderFrames) |-> SenderFrames[i].data]
           r == receive_isotp(bus_tx, DME_RX, 0, 0, rx, 1)
       IN /\ rx_frames' = rx
          /\ delivered' = [done |-> TRUE, payload |-> r.payload]
          /\ bus_tx' = r.bus
    /\ UNCHANGED <<violations, trace, session_type, is_open, tx_buffer,
                   send_calls, call, ncalls>>
    /\ UNCHANGED <<tx_data, fc_frames, exchanged>>
    /\ UNCHANGED <<scanVars, safetyVars, appVars>>

----------------------------------------------------------------------------
(* Specifications *)

\* ModuleScanner.__init__, UDSClient's default target, a fresh VehicleProfile
InitScanner ==
    /\ scan_state = "idle"
    /\ abort_requested = FALSE
    /\ target_address = 0
    /\ scans = [c \in Callers |-> IdleScan]
    /\ profile = [modules |-> <<>>, scan_complete |-> FALSE]

\* SafetyManager.__init__: no hook registered; no snapshot taken yet
NoSnapshot == [taken |-> FALSE, items |-> <<>>, shared |-> FALSE]

InitObservers ==
    /\ hooks = <<>>
    /\ hook_calls = <<>>
    /\ snapshot = NoSnapshot

\* the class attributes of CANWorker; no CANWorker constructed
InitWorkers ==
    /\ mutex = [locked_by |-> 0, is_running |-> FALSE]
    /\ workers = [w \in Workers |-> IdleWorker]

\* SafetyManager(): every field at its default
InitManager == manager = SafetyManager(BLOCKED_SERVICES, BLOCKED_WRITE_DIDS,
                                       BLOCKED_ROUTINES)

\* MockECUManager._initialize_ecus with the default SimulationConfig
\* ECUResetService.__init__; VehicleProfile with no service record
InitServices == service = [state |-> "IDLE", records |-> <<>>]

\* CANTransport.__init__, BatteryRegistrationService.__init__
InitLinks ==
    /\ can = NewCanTransport
    /\ battery = IdleBattery
    /\ connection = NewConnectionManager

InitMockEcus ==
    /\ dtc_ref = [a \in MockAddresses |-> a]
    /\ dtc_lists = [a \in MockAddresses |-> ConfiguredDTCs(a)]
    /\ current_target = 0

\* no IsoTpHandler operation under way
InitIsoTpIdle ==
    /\ rx_frames = <<>>
    /\ delivered = NotDelivered
    /\ tx_data = <<>>
    /\ fc_frames = <<>>
    /\ exchanged = NotSent

Init ==
    /\ violations = <<>>
    /\ trace = <<>>
    /\ session_type = 1
    /\ is_open = FALSE
    /\ tx_buffer = <<>>
    /\ send_calls = 0
    /\ bus_tx = <<>>
    /\ call = Call("none", <<>>, TRUE, NoOutcome)
    /\ ncalls = 0
    /\ InitScanner
    /\ ecu = [a \in Addresses |-> "absent"]
    /\ InitIsoTpIdle
    /\ InitObservers
    /\ InitWorkers
    /\ InitManager
    /\ InitMockEcus
    /\ InitServices
    /\ InitLinks

\* the client and its transport
Next ==
    \/ SendRequest
    \/ DiagnosticSessionControl
    \/ EcuReset
    \/ WriteDataById
    \/ RoutineControl
    \/ TransportOpen
    \/ TransportClose

Spec == Init /\ [][Next]_vars

\* the application's worker
NextWorker ==
    \/ WorkerSecurityAccess
    \/ WorkerServiceReset

SpecWorker == Init /\ [][NextWorker]_vars

\* the client over the CAN transport, next to the application's worker
NextCan ==
    \/ TransportOpen
    \/ CanSetTarget
    \/ CanSendRequest
    \/ CanLateReply
    \/ CanForeignFrame
    \/ WorkerSecurityAccess
    \/ WorkerServiceReset

SpecCan == Init /\ [][NextCan]_vars

\* battery registration runs over the mock transport
NextBattery ==
    \/ BatteryExecute
    \/ BatterySession
    \/ BatteryAbortCheck
    \/ BatteryRoutine
    \/ BatteryResultStep
    \/ BatteryAbort
    \/ TransportOpen
    \/ TransportClose

SpecBattery == Init /\ [][NextBattery]_vars

\* the connection manager driven from the connect page
NextConnection ==
    \/ ConnectionConnect
    \/ ConnectionDisconnect
    \/ ConnectionSetSimulationMode
    \/ ConnectionSetTransport

SpecConnection == Init /\ [][NextConnection]_vars

\* the simulated ECUs driven through their manager
NextMock ==
    \/ MockSetTarget
    \/ MockProcessRequest
    \/ MockAddDtc
    \/ MockClearAllDtcs

SpecMock == Init /\ [][NextMock]_vars

\* CANWorker threads started by the window
NextGuard ==
    \/ WorkerStart
    \/ WorkerRun
    \/ WorkerOperation
    \/ WorkerFinally

SpecGuard == Init /\ [][NextGuard]_vars

\* the service layer and the client's composed operations
NextServices ==
    \/ ResetServiceExecute
    \/ DiagnosticSessionControl
    \/ TesterPresent
    \/ ReadVin
    \/ TransportOpen
    \/ TransportClose

SpecServices == Init /\ [][NextServices]_vars

\* the safety engine on its own
NextSafety ==
    \/ CheckService
    \/ CheckWriteDid
    \/ CheckRoutine
    \/ CheckEcuReset
    \/ CheckOperation

SpecSafety == Init /\ [][NextSafety]_vars

\* the safety engine with an audit collaborator registering hooks
NextSafetyHooks ==
    \/ CheckService
    \/ CheckWriteDid
    \/ CheckRoutine
    \/ CheckEcuReset
    \/ CheckOperation
    \/ AddViolationHook

SpecSafetyHooks == Init /\ [][NextSafetyHooks]_vars

\* keyword arguments a caller may pass for each set: the default or its own
ConstructedManagers ==
    {SafetyManager(bs, bw, br) : bs \in {BLOCKED_SERVICES, {}},
                                 bw \in {BLOCKED_WRITE_DIDS, {}},
                                 br \in {BLOCKED_ROUTINES, {}}}

\* a safety engine constructed by a caller, then checked
InitSafetyManager ==
    /\ violations = <<>>
    /\ trace = <<>>
    /\ session_type = 1
    /\ is_open = FALSE
    /\ tx_buffer = <<>>
    /\ send_calls = 0
    /\ bus_tx = <<>>
    /\ call = Call("none", <<>>, TRUE, NoOutcome)
    /\ ncalls = 0
    /\ InitScanner
    /\ ecu = [a \in Addresses |-> "absent"]
    /\ InitIsoTpIdle
    /\ InitObservers
    /\ InitWorkers
    /\ manager \in ConstructedManagers
    /\ InitMockEcus
    /\ InitServices
    /\ InitLinks

NextSafetyManager ==
    \/ ManagerCheckService
    \/ ManagerCheckWriteDid
    \/ ManagerCheckRoutine

SpecSafetyManager == InitSafetyManager /\ [][NextSafetyManager]_vars

\* the safety engine with a caller reading the violation log
NextSafetyLog ==
    \/ CheckService
    \/ CheckWriteDid
    \/ CheckRoutine
    \/ CheckEcuReset
    \/ CheckOperation
    \/ GetViolations
    \/ MutateSnapshot

SpecSafetyLog == Init /\ [][NextSafetyLog]_vars

\* the scanner on a connected transport; each module behaves in one of the
\* ways of EcuKinds for the whole run
InitScan ==
    /\ violations = <<>>
    /\ trace = <<>>
    /\ session_type = 1
    /\ is_open = TRUE
    /\ tx_buffer = <<>>
    /\ send_calls = 0
    /\ bus_tx = <<>>
    /\ call = Call("none", <<>>, TRUE, NoOutcome)
    /\ ncalls = 0
    /\ InitScanner
    /\ ecu \in [Addresses -> EcuKinds]
    /\ InitIsoTpIdle
    /\ InitObservers
    /\ InitWorkers
    /\ InitManager
    /\ InitMockEcus
    /\ InitServices
    /\ InitLinks

NextScan ==
    \/ \E c \in Callers : ScanAll(c)
    \/ \E c \in Callers : ScanLoopHead(c)
    \/ \E c \in Callers : ScanProbe(c)
    \/ \E c \in Callers : ScanFinish(c)
    \/ ScanAbort

SpecScan == InitScan /\ [][NextScan]_vars

\* one caller passing lists of its own
NextScanLists ==
    \/ ScanAllListed(1)
    \/ ScanLoopHead(1)
    \/ ScanProbe(1)
    \/ ScanFinish(1)
    \/ ScanAbort

SpecScanLists == InitScan /\ [][NextScanLists]_vars

\* one caller that keeps running: inside scan_all it takes its next step
\* eventually (each probe is bounded by the transport's timeouts).  The
\* third conjunct is WF_vars(ScanProbe(1)) with ENABLED written out: the
\* probe is enabled exactly when the caller stands before it.
ScanFairness ==
    /\ WF_vars(ScanLoopHead(1))
    /\ WF_vars(ScanFinish(1))
    /\ []<>(scans[1].pc # "probe") \/ []<><<ScanProbe(1)>>_vars

SpecScanFair == InitScan /\ [][NextScanLists]_vars /\ ScanFairness

\* one reception by the worker's ISO-TP handler, over every bounded stream
InitIsoTp ==
    /\ violations = <<>>
    /\ trace = <<>>
    /\ session_type = 1
    /\ is_open = FALSE
    /\ tx_buffer = <<>>
    /\ send_calls = 0
    /\ bus_tx = <<>>
    /\ call = Call("none", <<>>, TRUE, NoOutcome)
    /\ ncalls = 0
    /\ InitScanner
    /\ ecu = [a \in Addresses |-> "absent"]
    /\ rx_frames \in RxStreams
    /\ delivered = NotDelivered
    /\ tx_data = <<>>
    /\ fc_frames = <<>>
    /\ exchanged = NotSent
    /\ InitObservers
    /\ InitWorkers
    /\ InitManager
    /\ InitMockEcus
    /\ InitServices
    /\ InitLinks

NextIsoTp == IsoTpReceive

SpecIsoTp == InitIsoTp /\ [][NextIsoTp]_vars

\* one send_receive over every bounded buffer and Flow Control stream, the
\* emitted frames then reassembled by a peer handler
InitIsoTpSend ==
    /\ violations = <<>>
    /\ trace = <<>>
    /\ session_type = 1
    /\ is_open = FALSE
    /\ tx_buffer = <<>>
    /\ send_calls = 0
    /\ bus_tx = <<>>
    /\ call = Call("none", <<>>, TRUE, NoOutcome)
    /\ ncalls = 0
    /\ InitScanner
    /\ ecu = [a \in Addresses |-> "absent"]
    /\ rx_frames = <<>>
    /\ delivered = NotDelivered
    /\ tx_data \in Buffers
    /\ fc_frames \in FcStreams(tx_data)
    /\ exchanged = NotSent
    /\ InitObservers
    /\ InitWorkers
    /\ InitManager
    /\ InitMockEcus
    /\ InitServices
    /\ InitLinks

NextIsoTpSend ==
    \/ IsoTpSendReceive
    \/ IsoTpPeerReceive

SpecIsoTpSend == InitIsoTpSend /\ [][NextIsoTpSend]_vars

\* a handler about to send a buffer to a peer that answers with Flow Control
\* frames of every status
InitIsoTpFlow ==
    /\ violations = <<>>
    /\ trace = <<>>
    /\ session_type = 1
    /\ is_open = FALSE
    /\ tx_buffer = <<>>
    /\ send_calls = 0
    /\ bus_tx = <<>>
    /\ call = Call("none", <<>>, TRUE, NoOutcome)
    /\ ncalls = 0
    /\ InitScanner
    /\ ecu = [a \in Addresses |-> "absent"]
    /\ rx_frames = <<>>
    /\ delivered = NotDelivered
    /\ tx_data \in Buffers
    /\ fc_frames \in FcStatusStreams(tx_data)
    /\ exchanged = NotSent
    /\ InitObservers
    /\ InitWorkers
    /\ InitManager
    /\ InitMockEcus
    /\ InitServices
    /\ InitLinks

SpecIsoTpFlow == InitIsoTpFlow /\ [][NextIsoTpSend]_vars

----------------------------------------------------------------------------
(* Properties of the safety gate and the client *)

\* a step that completes one call
CallStep == ncalls' = ncalls + 1

\* service id of the request a bus frame starts (Single or First Frame), or -1
BusRequestSid(msg) ==
    IF HiNib(msg.data[1]) = 0 /\ LoNib(msg.data[1]) >= 1 THEN msg.data[2]
    ELSE IF HiNib(msg.data[1]) = 16 THEN msg.data[3]
    ELSE -1

\* routine id of a routine-control request carried by a Single Frame, or -1
BusRoutineId(msg) ==
    IF BusRequestSid(msg) = 49 /\ HiNib(msg.data[1]) = 0 /\ LoNib(msg.data[1]) >= 4
    THEN msg.data[4] * 256 + msg.data[5]
    ELSE -1

\* C1: a send_request call with check_safety enabled whose service id the
\* Safety Engine rejects fails with the policy error and never invokes the
\* transport's send: nothing is added to the wire.
C1_BlockedRequestNeverReachesTransport ==
    [][(CallStep /\ call'.op = "send_request" /\ call'.check_safety
            /\ ~check_service(violations, call'.args[1]).ok)
        => (/\ call'.out.status = "error"
            /\ call'.out.code = 255
            /\ send_calls' = send_calls
            /\ tx_buffer' = tx_buffer)]_vars

C1_Witness ==
    /\ call.op = "send_request"
    /\ call.check_safety
    /\ call.args[1] = 39
    /\ call.out.status = "error"
    /\ call.out.code = 255
    /\ is_open

\* C2: no request whose service id is in the blocked service set is ever
\* transmitted, on the transport or on the bus, whatever options the caller
\* selects.
C2_NoBlockedServiceTransmitted ==
    /\ \A i \in 1..Len(tx_buffer) : tx_buffer[i][1] \notin BLOCKED_SERVICES
    /\ \A i \in 1..Len(bus_tx) : BusRequestSid(bus_tx[i]) \notin BLOCKED_SERVICES

\* C3: no routine-control request whose routine id is in the blocked routine
\* set is ever transmitted, on the transport or on the bus.
C3_NoBlockedRoutineTransmitted ==
    /\ \A i \in 1..Len(tx_buffer) :
          (tx_buffer[i][1] = 49 /\ Len(tx_buffer[i]) >= 4)
              => from_bytes_big(SubSeq(tx_buffer[i], 3, 4)) \notin BLOCKED_ROUTINES
    /\ \A i \in 1..Len(bus_tx) : BusRoutineId(bus_tx[i]) \notin BLOCKED_ROUTINES

\* C4: every Safety Engine check either returns true and leaves the violation
\* log unchanged, or returns false and appends exactly one entry to it.
C4_CheckOutcomesExclusive ==
    [][CallStep
        => \/ /\ call'.out.status = "allowed"
              /\ violations' = violations
           \/ /\ call'.out.status = "rejected"
              /\ Len(violations') = Len(violations) + 1
              /\ SubSeq(violations', 1, Len(violations)) = violations]_vars

C4_Witness ==
    /\ ncalls = 2
    /\ call.op = "check_operation"
    /\ call.out.status = "rejected"
    /\ Len(violations) = 2

\* C5: write_data_by_id is refused by policy exactly when the identifier is
\* in the protected set; a write to any other identifier goes out.
C5_WriteRefusedExactlyForProtectedIds ==
    call.op = "write_data_by_id"
        => ((call.out.status = "error" /\ call.out.code = 255)
                <=> call.args[1] \in BLOCKED_WRITE_DIDS)

\* C6: check_service returns false exactly for Security Access, Request
\* Download, Request Upload, Transfer Data, Request Transfer Exit and
\* Request File Transfer.
C6_CheckServiceRejectsExactlySix ==
    call.op = "check_service"
        => (call.out.status = "rejected"
                <=> call.args[1] \in {39, 52, 53, 54, 55, 56})

----------------------------------------------------------------------------
(* Properties of the module scanner *)

\* C7: at most one scan runs at a time: while one caller's scan_all is in
\* progress no other caller's is (a second concurrent request is rejected).
C7_AtMostOneScanInProgress ==
    Cardinality({c \in Callers : InProgress(c)}) <= 1

\* C8: a scan during which abort() took effect, at whatever point and
\* whichever module was in flight, ends with ScanResult.aborted = true.
C8_AbortedScanReportsAborted ==
    \A c \in Callers :
        (scans[c].pc = "done" /\ scans[c].abort_seen) => scans[c].result.aborted

\* the module results a finished or running scan has recorded
RecordedResults == UNION {{scans[c].result.modules[k] :
                              k \in 1..Len(scans[c].result.modules)} : c \in Callers}

\* C9: a responding module's fault_count is the count its DTC-count reply
\* carries (n stored faults are recorded as n); a malformed or absent reply
\* gives 0.
C9_FaultCountIsReportedCount ==
    \A mr \in RecordedResults :
        mr.responding =>
            /\ mr.fault_count = DTCCount(MockDTCs(ecu[mr.address]), SCAN_STATUS_MASK)
            /\ mr.error_message = NoText

----------------------------------------------------------------------------
(* Properties of ISO-TP reception *)

IsFirstFrame(frame) == frame # None /\ HiNib(frame[1]) = 16

DeclaredLength(frame) == LoNib(frame[1]) * 256 + frame[2]

\* C10: a multi-frame reception that is cut short (a sequence mismatch, a
\* missing Consecutive Frame, a timeout) delivers no payload: what is
\* delivered after a First Frame is the whole declared payload, or the
\* negative response that interrupted it, or nothing.
C10_NoPartialPayloadDelivered ==
    (delivered.done /\ IsFirstFrame(rx_frames[1]))
        => \/ delivered.payload = None
           \/ Len(delivered.payload) = DeclaredLength(rx_frames[1])
           \/ delivered.payload = Slice(NegativeFrame, 1, 4)

\* the send_receive call put every frame of its buffer on the bus
SenderCompleted ==
    exchanged.done /\ Len(SenderFrames) = 1 + ConsecutiveFramesOf(tx_data)

\* C11: segmenting a buffer with the sender and reassembling the frames it
\* emitted with the receiver gives back exactly the buffer, whenever the peer
\* supplied the Flow Control the sender needed.
C11_SegmentReassembleRoundTrip ==
    (SenderCompleted /\ delivered.done) => delivered.payload = tx_data

C11_Witness ==
    /\ SenderCompleted
    /\ delivered.done
    /\ Len(tx_data) = 118
    /\ delivered.payload = tx_data

----------------------------------------------------------------------------
(* Properties of response classification and the protocol trace *)

\* the last call was a send_request that returned a response object
ReturnedResponse == call.op = "send_request" /\ call.out.status = "response"

\* the name the fixed table gives a negative response code
TableName(code) ==
    IF code \in DOMAIN NegativeResponseNames
    THEN <<NegativeResponseNames[code]>>
    ELSE <<"Unknown Error", code>>

PositiveClassification ==
    LET resp == call.out.raw_response
    IN /\ call.out.positive <=> resp[1] = call.args[1] + 64
       /\ call.out.positive => call.out.data = Tail(resp)
       /\ (call.args[1] = 16 /\ resp = <<80, 1>>) => call.out.data = <<1>>

IsNegativeOutcome ==
    LET resp == call.out.raw_response
    IN /\ ~call.out.positive
       /\ Len(resp) >= 3
       /\ call.out.service_id = resp[2]
       /\ call.out.code = resp[3]
       /\ call.out.error_message = TableName(resp[3])
       /\ resp[3] = 34 => call.out.error_message = <<"Conditions Not Correct">>

C13_MalformedAndSilentAreErrors ==
    call.op = "send_request" =>
        /\ call.out.status = "response" =>
              call.out.raw_response[1] \in {call.args[1] + 64, 127}
        /\ call.out.raw_response \in {<<>>, None} => call.out.status # "response"

\* a send_request call that passed the safety gate has just returned
UngatedSendRequestStep ==
    /\ ncalls' = ncalls + 1
    /\ call'.op = "send_request"
    /\ ~(call'.out.status = "error" /\ call'.out.code = 255)

\* C14: every send_request call that reaches the transport adds one TX entry
\* followed by one RX entry to the trace, whatever its outcome (positive,
\* negative, malformed, send failure or timeout).
C14_EveryCallTracedBothWays ==
    [][UngatedSendRequestStep =>
          /\ Len(trace') = Len(trace) + 2
          /\ SubSeq(trace', 1, Len(trace)) = trace
          /\ trace'[Len(trace) + 1].direction = "TX"
          /\ trace'[Len(trace) + 2].direction = "RX"]_vars

----------------------------------------------------------------------------
(* Properties of a scan over silent modules, cancellation and callbacks *)

\* the module at the address gives no answer at all
Silent(address) == ecu[address] = "absent"

\* the module at the address accepts the default-session request
Answers(address) == ecu[address] \notin {"absent", "rejects"}

\* the scan of caller c returned without having been aborted
ScanReturned(c) == scans[c].pc = "done" /\ ~scans[c].result.aborted

\* C15: a silent module does not abort a scan: a scan over n modules returns
\* total_modules = n and one entry per module in order, a silent module's
\* entry being not-responding with an error message, and responding_modules
\* is the number of modules that answered.
C15_SilentModuleDoesNotAbortScan ==
    \A c \in Callers :
        ScanReturned(c) =>
            LET s == scans[c]
                n == Len(s.modules_to_scan)
            IN /\ s.result.total_modules = n
               /\ Len(s.result.modules) = n
               /\ \A k \in 1..n :
                     /\ s.result.modules[k].module_id = s.modules_to_scan[k].module_id
                     /\ s.result.modules[k].responding
                            <=> Answers(s.modules_to_scan[k].address)
                     /\ Silent(s.modules_to_scan[k].address) =>
                            /\ ~s.result.modules[k].responding
                            /\ s.result.modules[k].error_message # NoText
               /\ s.result.responding_modules =
                     Cardinality({k \in 1..n : Answers(s.modules_to_scan[k].address)})

\* a scan over two modules, the first silent, reports 2 modules, 1 responding
C15_Witness ==
    \E c \in Callers :
        /\ ScanReturned(c)
        /\ Len(scans[c].modules_to_scan) = 2
        /\ Silent(scans[c].modules_to_scan[1].address)
        /\ scans[c].result.total_modules = 2
        /\ scans[c].result.responding_modules = 1
        /\ ~scans[c].result.modules[1].responding
        /\ scans[c].result.modules[2].responding

\* C16: cancellation never pre-empts an in-flight probe: a probe under way
\* is always completed and its module recorded, and once abort() has taken
\* effect during a scan that scan starts no further probe.
C16_AbortIsCooperative ==
    [][\A c \in Callers :
          /\ (scans[c].pc = "probe" /\ scans'[c].pc # "probe") =>
                /\ scans'[c].pc = "loop"
                /\ Len(scans'[c].result.modules) = Len(scans[c].result.modules) + 1
          /\ (scans[c].pc = "loop" /\ scans'[c].pc = "probe") =>
                ~scans[c].abort_seen]_vars

\* C17: the progress callback of a module fires after that module has been
\* probed, once per probed module with (index, total, name), and the
\* completion callback fires once per scan, after the last progress callback.
C17_ProgressFollowsProbe ==
    \A c \in Callers :
        LET s == scans[c]
        IN /\ Len(s.progress) <= Len(s.result.modules)
           /\ \A k \in 1..Len(s.progress) :
                 s.progress[k] = <<k - 1, s.result.total_modules,
                                   s.modules_to_scan[k].module_id>>
           /\ s.pc = "done" => /\ Len(s.progress) = Len(s.result.modules)
                               /\ Len(s.complete) = 1
           /\ s.pc # "done" => s.complete = <<>>

----------------------------------------------------------------------------
(* Properties of the ISO-TP sender's flow control *)

IsFlowControl(frame) == ~Falsy(frame) /\ HiNib(frame[1]) = 48

\* Flow Control frames at the head of the frames the peer supplied
RECURSIVE LeadingFlowControls(_)
LeadingFlowControls(rx) ==
    IF rx = <<>> \/ ~IsFlowControl(Head(rx)) THEN 0
    ELSE 1 + LeadingFlowControls(Tail(rx))

\* Consecutive Frames the sender put on the bus
ConsecutiveFramesSent ==
    Len(SelectSeq(SenderFrames, LAMBDA msg : HiNib(msg.data[1]) = 32))

\* C18: after a First Frame the sender emits no Consecutive Frame until a
\* Flow Control frame has arrived, and sends nothing further when none
\* arrives; with a non-zero block size it emits at most that many Consecutive
\* Frames for each Flow Control frame received.
C18_SenderWaitsForFlowControl ==
    (exchanged.done /\ Len(tx_data) > 7) =>
        /\ HiNib(SenderFrames[1].data[1]) = 16
        /\ LeadingFlowControls(fc_frames) = 0 => Len(SenderFrames) = 1
        /\ (LeadingFlowControls(fc_frames) > 0 /\ fc_frames[1][2] > 0) =>
              ConsecutiveFramesSent
                  <= fc_frames[1][2] * LeadingFlowControls(fc_frames)
        /\ Len(SenderFrames) = 1 + ConsecutiveFramesSent

\* block size 1, two Flow Control frames for a buffer of three Consecutive
\* Frames: the sender stops after the second
C18_Witness ==
    /\ exchanged.done
    /\ Len(tx_data) = 22
    /\ Len(fc_frames) = 2
    /\ LeadingFlowControls(fc_frames) = 2
    /\ fc_frames[1][2] = 1
    /\ ConsecutiveFramesSent = 2
    /\ exchanged.response = None

----------------------------------------------------------------------------
(* Properties of the violation hooks and the violation log *)

\* C19: a check that rejects calls every registered hook once, in
\* registration order, with the violation it has just appended to the log,
\* before it returns; a hook that raises stops neither the calls of the hooks
\* after it nor the rejection; a check that allows calls no hook.
C19_RejectionReachesEveryHook ==
    [][CallStep =>
          IF Len(violations') > Len(violations)
          THEN /\ call'.out.status = "rejected"
               /\ Len(hook_calls') = Len(hook_calls) + Len(hooks)
               /\ SubSeq(hook_calls', 1, Len(hook_calls)) = hook_calls
               /\ \A k \in 1..Len(hooks) :
                     LET d == hook_calls'[Len(hook_calls) + k]
                     IN /\ d.hook = hooks[k]
                        /\ d.logged = Len(violations')
                        /\ d.violation = violations'[Len(violations')]
          ELSE /\ call'.out.status = "allowed"
               /\ hook_calls' = hook_calls]_vars

\* a raising hook registered before another one: both were called
C19_Witness ==
    /\ hooks = <<"raises", "notes">>
    /\ call.out.status = "rejected"
    /\ Len(hook_calls) = 2
    /\ hook_calls[1].hook = "raises" /\ hook_calls[1].raised
    /\ hook_calls[2].hook = "notes"
    /\ hook_calls[2].violation = violations[Len(violations)]

----------------------------------------------------------------------------
(* Properties of the safety engine's configuration and of the reset service *)

\* C21: whatever instance of the safety engine is checked, and however it
\* was constructed, a check rejects exactly the ids of the compiled-in sets.
C21_BlockedSetsAreFixed ==
    /\ call.op = "check_service" =>
          (call.out.status = "rejected" <=> call.args[1] \in BLOCKED_SERVICES)
    /\ call.op = "check_write_did" =>
          (call.out.status = "rejected" <=> call.args[1] \in BLOCKED_WRITE_DIDS)
    /\ call.op = "check_routine" =>
          (call.out.status = "rejected" <=> call.args[1] \in BLOCKED_ROUTINES)

\* C22: an execute request of the reset service for a hard reset is blocked:
\* the result does not report success and no reset request (service 0x11) is
\* handed to the transport
C22_HardResetIsBlocked ==
    [][(/\ ncalls' = ncalls + 1
        /\ call'.op = "ecu_reset_service"
        /\ call'.args[2] = RESET_HARD)
       => /\ ~call'.out.positive
          /\ \A i \in (Len(tx_buffer) + 1)..Len(tx_buffer') :
                 tx_buffer'[i][1] # 17]_vars

dangerous_operations ==
  { <<"i","m","m","o","b","i","l","i","z","e","r","_","b","y","p","a","s","s">>,
    <<"e","w","s","_","r","e","s","e","t">>,
    <<"k","e","y","_","p","r","o","g","r","a","m","m","i","n","g">>,
    <<"v","i","n","_","w","r","i","t","e">>,
    <<"o","d","o","m","e","t","e","r","_","r","e","s","e","t">>,
    <<"m","i","l","e","a","g","e","_","c","o","r","r","e","c","t","i","o","n">>,
    <<"f","l","a","s","h","_","e","c","u">>,
    <<"e","e","p","r","o","m","_","d","u","m","p">>,
    <<"s","e","c","u","r","i","t","y","_","u","n","l","o","c","k">>,
    <<"t","h","e","f","t","_","m","o","d","e">> }

\* C24: check_operation rejects every operation name denoting immobilizer
\* bypass, EWS reset, key programming, VIN write, odometer reset, mileage
\* correction, ECU flash, EEPROM dump, security unlock or theft mode
C24_DangerousOperationsRejected ==
    (call.op = "check_operation" /\ call.args \in dangerous_operations)
        => call.out.status = "rejected"

----------------------------------------------------------------------------
(* Properties of the client's composed operations *)

\* C25: no diagnostic-session-control request carrying the programming
\* session (0x02) is handed to the transport, whatever session type the
\* caller supplies
C25_ProgrammingSessionNeverRequested ==
    \A i \in 1..Len(tx_buffer) :
        ~(Len(tx_buffer[i]) >= 2 /\ tx_buffer[i][1] = 16 /\ tx_buffer[i][2] = 2)

\* the VIN a positive answer to the VIN read carries, None when the request
\* did not go out or the answer is none, negative or shorter than 11
\* characters
AnsweredVin(sent, response) ==
    IF sent /\ response # None /\ Len(response) >= 1 /\ response[1] = 98
       /\ Len(DecodeAsciiStrip(Slice(response, 3, Len(response)))) >= 11
    THEN DecodeAsciiStrip(Slice(response, 3, Len(response)))
    ELSE None

\* C26: read_vin returns the decoded VIN whenever the target answers the VIN
\* read positively with at least 11 characters, and None otherwise
C26_ReadVinReturnsAnsweredVin ==
    call.op = "read_vin" => call.out.data = AnsweredVin(call.args[1], call.args[2])

\* C27: tester_present with the suppressed-response sub-function (0x80),
\* once sent, does not end in an error when the target sends no reply
C27_SuppressedTesterPresentSucceeds ==
    (/\ call.op = "tester_present"
     /\ call.args[1] = 128
     /\ call.out.code # 254)
        => call.out.status # "error"

----------------------------------------------------------------------------
(* Properties of the worker guard *)

InGuard(ws) == {w \in Workers : ws[w].pc \in {"locked", "finished"}}

\* C28: at most one worker is inside the guarded operation at a time; a
\* worker run while another holds the guard returns at once with the error
\* "Another operation is in progress", has done no bus I/O, and leaves the
\* guard with the worker that holds it
C28_OneWorkerAtATime ==
    [][/\ Cardinality(InGuard(workers')) <= 1
       /\ \A w \in Workers :
             (/\ workers[w].pc = "started"
              /\ mutex.locked_by # 0
              /\ workers'[w] # workers[w])
                 => (workers'[w].pc = "refused" /\ mutex' = mutex)
       /\ \A w \in Workers :
             workers'[w].pc = "refused"
                 => /\ workers'[w].io = 0
                    /\ workers'[w].result =
                           <<"error", "Another operation is in progress">>]_vars

C28_Witness ==
    \E w \in Workers, v \in Workers :
        /\ workers[w].pc = "refused"
        /\ workers[v].pc = "finished"
        /\ workers[v].io = 1
        /\ mutex.locked_by = v

----------------------------------------------------------------------------
(* Properties of the simulated ECUs *)

\* C29: a clear request (0x14, group 0xFFFFFF) answered positively by the
\* module at the current target leaves that module's DTC list empty and the
\* list of every other module as it was
C29_ClearAffectsOnlyTarget ==
    [][(/\ ncalls' = ncalls + 1
        /\ call'.op = "process_request"
        /\ call'.args[2] = <<20, 255, 255, 255>>
        /\ call'.out.raw_response = <<84>>)
       => /\ DtcsOf(dtc_ref', dtc_lists', call'.args[1]) = <<>>
          /\ \A b \in MockAddresses \ {call'.args[1]} :
                 DtcsOf(dtc_ref', dtc_lists', b) = DtcsOf(dtc_ref, dtc_lists, b)]_vars

C29_Witness ==
    /\ call.op = "process_request"
    /\ call.args = <<18, <<20, 255, 255, 255>>>>
    /\ call.out.raw_response = <<84>>
    /\ DtcsOf(dtc_ref, dtc_lists, 18) = <<>>
    /\ Len(DtcsOf(dtc_ref, dtc_lists, 86)) = 2
    /\ ncalls = 1

----------------------------------------------------------------------------
(* Properties of the per-module scan result *)

\* C30: every recorded module result has has_faults exactly when the module
\* responded and its fault_count is positive, whatever the outcome of the
\* probe, a probe that fails part-way included
C30_HasFaultsIffRespondingWithFaults ==
    \A mr \in RecordedResults :
        mr.has_faults <=> (mr.responding /\ mr.fault_count > 0)

\* one scan recorded a module with a positive fault count and a module that
\* answered the session request but not the DTC count
C30_Witness ==
    \E c \in Callers :
        /\ Len(scans[c].result.modules) = 2
        /\ \E k \in 1..2 :
              /\ scans[c].result.modules[k].has_faults
              /\ scans[c].result.modules[k].responding
              /\ scans[c].result.modules[k].fault_count > 0
        /\ \E k \in 1..2 :
              /\ ecu[scans[c].result.modules[k].address] = "nodtc"
              /\ scans[c].result.modules[k].responding
              /\ ~scans[c].result.modules[k].has_faults

----------------------------------------------------------------------------
(* Properties of the scan's module list, counters and final state *)

\* the module ids of a sequence of definitions or results, in order
ModuleIds(ms) == [k \in 1..Len(ms) |-> ms[k].module_id]

\* C31: a scan that was not aborted probed exactly the modules of the list
\* it was given, each once, whatever the length of the list; without a list
\* it probed every registry module, each once and in registry order
C31_ProbesExactlyRequested ==
    \A c \in Callers :
        ScanReturned(c) =>
            LET probed == ModuleIds(scans[c].result.modules)
            IN IF scans[c].modules.given
               THEN probed = ModuleIds(scans[c].modules.list)
               ELSE probed = ModuleIds(get_all_modules)

----------------------------------------------------------------------------
(* Properties of the CAN addressing and of request/response pairing *)

TransmittedFrames ==
    {can.sent[i] : i \in 1..Len(can.sent)} \cup {bus_tx[i] : i \in 1..Len(bus_tx)}

\* C32: every frame the program transmits carries the one tester identifier
\* BMW_DIAG_TX_BASE as a standard 11-bit identifier and has 8 data bytes, and
\* a frame is accepted as the response of the target only if its identifier
\* is BMW_DIAG_RX_BASE plus the target's address.
C32_FixedTesterIdAndTargetResponseId ==
    /\ \A msg \in TransmittedFrames :
           /\ msg.arbitration_id = BMW_DIAG_TX_BASE
           /\ ~msg.is_extended_id
           /\ Len(msg.data) = 8
    /\ call.op = "can_read_data_by_id" /\ can.accepted # NoFrame =>
           can.accepted.arbitration_id = BMW_DIAG_RX_BASE + call.args[2]

\* C34: a response send_request returns was sent by the current target in
\* answer to that very request: a positive answer to ReadDataByIdentifier
\* comes from the target's response identifier and echoes the identifier
\* that was asked for.
C34_ResponseAnswersItsRequest ==
    (call.op = "can_read_data_by_id" /\ call.out.status = "response"
        /\ call.out.positive) =>
        /\ can.accepted.arbitration_id = BMW_DIAG_RX_BASE + call.args[2]
        /\ Slice(call.out.data, 0, 2) = to_bytes2(call.args[1])

----------------------------------------------------------------------------
(* Properties of the battery registration service *)

BatteryReturned == battery.pc = "done"

RunRecords == Len(battery.records) - battery.before

\* what C33 says of a run the module acknowledged, and of one it rejected
AcknowledgedRunCompletes ==
    battery.routine = "positive" =>
        /\ battery.state = "COMPLETE"
        /\ battery.result.success
        /\ RunRecords = 1
        /\ battery.records[Len(battery.records)].success

RejectedRunFails ==
    battery.routine = "negative" =>
        /\ battery.state = "FAILED"
        /\ ~battery.result.success
        /\ RunRecords = 0

\* C33 as stated: a run ends COMPLETE with a successful result and exactly
\* one successful service record when the module acknowledged the routine,
\* and FAILED with an unsuccessful result and no record when it rejected it.
C33_OutcomeFollowsModuleAnswer ==
    BatteryReturned => AcknowledgedRunCompletes /\ RejectedRunFails

\* C33, amended: the same of every run that does not end ABORTED.
C33_OutcomeFollowsModuleAnswerUnlessAborted ==
    BatteryReturned /\ battery.state # "ABORTED" =>
        AcknowledgedRunCompletes /\ RejectedRunFails

C33_Witness ==
    /\ BatteryReturned
    /\ battery.routine = "positive"
    /\ battery.state = "COMPLETE"
    /\ Len(battery.records) = 2

\* C35: a run that reports ABORTED has not registered the battery on the
\* module, whenever during the run the abort was requested.
C35_AbortedRunLeavesBatteryUnregistered ==
    BatteryReturned /\ battery.state = "ABORTED" => ~battery.registered

----------------------------------------------------------------------------
(* Properties of the reset service's final state *)

\* execute got past its safety check
ResetExecutionBegan == call.args[2] \in SAFE_RESET_TYPES

\* C36: when ECUResetService.execute has returned, the service is not in
\* state EXECUTING: it is COMPLETE if the reset was positively acknowledged
\* and FAILED after every failure that occurred once execution had begun.
C36_ResetServiceLeavesExecuting ==
    call.op = "ecu_reset_service" =>
        /\ service.state # "EXECUTING"
        /\ call.out.positive => service.state = "COMPLETE"
        /\ (ResetExecutionBegan /\ ~call.out.positive) => service.state = "FAILED"

----------------------------------------------------------------------------
(* Properties of the end of a scan *)

\* the step in which caller c's scan_all returns
ScanReturnStep(c) == scans[c].pc = "finish" /\ scans'[c].pc = "done"

FinalStateMatchesResult(c) ==
    /\ scan_state' \in {"complete", "aborted"}
    /\ scan_state' = "aborted" <=> scans'[c].result.aborted
    /\ profile'.scan_complete <=> ~scans'[c].result.aborted

\* C37: every scan_all that was entered returns, and when it returns the
\* scanner's state is COMPLETE or ABORTED, ABORTED exactly when the result is
\* flagged aborted, and the profile is marked scan-complete exactly when it
\* is not.
C37_ScanTerminatesInFinalState ==
    /\ [][\A c \in Callers : ScanReturnStep(c) => FinalStateMatchesResult(c)]_vars
    /\ \A c \in Callers : (scans[c].pc # "idle") ~> (scans[c].pc = "done")

C37_Witness ==
    \E c \in Callers :
        /\ scans[c].pc = "done"
        /\ scans[c].result.aborted
        /\ scan_state = "aborted"
        /\ ~profile.scan_complete
        /\ Len(scans[c].result.modules) = 1

----------------------------------------------------------------------------
(* Properties of the counters of a scan result *)

RespondingEntries(ms) == Cardinality({k \in 1..Len(ms) : ms[k].responding})

EntriesWithFaults(ms) == Cardinality({k \in 1..Len(ms) : ms[k].has_faults})

RECURSIVE SumOfFaultCounts(_)
SumOfFaultCounts(ms) ==
    IF ms = <<>> THEN 0 ELSE Head(ms).fault_count + SumOfFaultCounts(Tail(ms))

\* C38: in every scan result the counters agree with the recorded entries:
\* responding_modules is the number of entries marked responding,
\* modules_with_faults the number of entries with faults, total_faults the
\* sum of their fault_count; there are never more entries than
\* total_modules, and in a returned result there are exactly total_modules
\* of them if and only if the scan was not aborted.
C38_CountersMatchEntries ==
    \A c \in Callers :
        LET r == scans[c].result
        IN /\ r.responding_modules = RespondingEntries(r.modules)
           /\ r.modules_with_faults = EntriesWithFaults(r.modules)
           /\ r.total_faults = SumOfFaultCounts(r.modules)
           /\ Len(r.modules) <= r.total_modules
           /\ scans[c].pc = "done" =>
                  (Len(r.modules) = r.total_modules <=> ~r.aborted)

C38_Witness ==
    \E c \in Callers :
        LET r == scans[c].result
        IN /\ scans[c].pc = "done"
           /\ ~r.aborted
           /\ Len(r.modules) = 2
           /\ r.responding_modules = 1
           /\ r.modules_with_faults = 1
           /\ r.total_faults > 0

----------------------------------------------------------------------------
(* Properties of the ISO-TP sender's handling of the flow status *)

\* Flow Control frames with status Continue-To-Send at the head of the
\* frames the peer supplied
RECURSIVE LeadingContinues(_)
LeadingContinues(rx) ==
    IF rx = <<>> \/ Falsy(Head(rx)) \/ Head(rx)[1] # FC_CONTINUE THEN 0
    ELSE 1 + LeadingContinues(Tail(rx))

\* C39: the sender emits Consecutive Frames only in response to Flow Control
\* frames with status Continue-To-Send: none when the first Flow Control
\* frame says Wait or Overflow, and with a non-zero block size no more than
\* one block for each Continue-To-Send frame received in a row.
C39_ConsecutiveFramesOnlyAfterContinue ==
    (exchanged.done /\ Len(tx_data) > 7) =>
        /\ LeadingContinues(fc_frames) = 0 => ConsecutiveFramesSent = 0
        /\ (LeadingContinues(fc_frames) > 0 /\ fc_frames[1][2] > 0) =>
              ConsecutiveFramesSent
                  <= fc_frames[1][2] * LeadingContinues(fc_frames)

----------------------------------------------------------------------------
(* Properties of the connection manager *)

\* connect returned true exactly when it left the state CONNECTED
ReturnsTrueIffConnected ==
    connection.last.returned <=> connection.state = "CONNECTED"

\* a connect that returned false left the state ERROR with an error record
FailureLeavesErrorRecord ==
    ~connection.last.returned =>
        /\ connection.state = "ERROR"
        /\ connection.last_error # NoError
        /\ connection.last_error.code # ""
        /\ connection.last_error.message # <<>>
        /\ connection.last_error.suggestion # ""

\* C40: when connect has returned, it returned true exactly when the state
\* is CONNECTED, the state is CONNECTED only if the transport's open and its
\* validate both succeeded in that call, and a connect that failed left the
\* state ERROR with an error record that has a code, a message and a
\* suggestion.
C40_ConnectedOnlyAfterOpenAndValidation ==
    connection.last.called =>
        /\ ReturnsTrueIffConnected
        /\ connection.state = "CONNECTED" =>
               connection.last.opened /\ connection.last.validated
        /\ FailureLeavesErrorRecord

\* the other two parts of C40, without the part about validation
C40_ReturnValueAndErrorRecord ==
    connection.last.called =>
        ReturnsTrueIffConnected /\ FailureLeavesErrorRecord

====
